---- MODULE Spec2Model ----
(***************************************************************************)
(* Model of the SpinScribe HITL webhook server: the in-memory workflow     *)
(* store (webhooks/storage.py), the checkpoint handlers and the decision   *)
(* processor (webhooks/handlers.py) and the FastAPI endpoints that drive   *)
(* them (webhooks/server.py).                                              *)
(*                                                                         *)
(* Timestamps are datetime.utcnow().isoformat() strings in the code; ISO   *)
(* strings of one fixed layout compare as the instants they denote, so the *)
(* model keeps the instant as a natural number of hours (`now`).           *)
(***************************************************************************)
EXTENDS Integers, Sequences, FiniteSets, TLC

(* ------------------------------ bounds --------------------------------- *)

\* Number of checkpoint notifications the model lets the server receive.
MaxApprovals == 2

\* Number of times the clock is read to have advanced.
MaxTicks == 1

\* Hours between two readings of the clock that differ.
TickHours == 36

\* Background cleanup tasks that may be scheduled and not yet run.
MaxCleanupBacklog == 1

\* Calls a client of the library makes on the store's methods.
MaxStoreCalls == 3

\* Task-status notifications the model lets the server receive.
MaxTaskReports == 1

(* ---------------------------- vocabulary ------------------------------- *)

WfIds == {"wf_1", "wf_2"}

\* payload.get('workflow_id') or payload.get('kickoff_id') found nothing
NoId == "<none>"

\* CheckpointType
BRAND_VOICE == "brand_voice"
STYLE_COMPLIANCE == "style_compliance"
FINAL_QA == "final_qa"
CheckpointType == {BRAND_VOICE, STYLE_COMPLIANCE, FINAL_QA}

\* ApprovalDecision
APPROVE == "approve"
REJECT == "reject"
REVISE == "revise"
ApprovalDecision == {APPROVE, REJECT, REVISE}

\* WorkflowStatus
IN_PROGRESS == "in_progress"
AWAITING_APPROVAL == "awaiting_approval"
APPROVED == "approved"
REJECTED == "rejected"
REVISION_REQUESTED == "revision_requested"
COMPLETED == "completed"
FAILED == "failed"
WorkflowStatus ==
    {IN_PROGRESS, AWAITING_APPROVAL, APPROVED, REJECTED, REVISION_REQUESTED,
     COMPLETED, FAILED}

\* Python's None for string-valued fields, and a key missing from a dict
None == "<None>"
Absent == "<absent>"

\* metadata dicts: every key is either Absent or carries a string
MetaKeys == {"client_name", "topic", "content_type", "audience", "ai_language_code"}
EmptyMeta == [k \in MetaKeys |-> Absent]
AcmeMeta == [EmptyMeta EXCEPT !["client_name"] = "Acme", !["topic"] = "AI"]
GlobexMeta == [EmptyMeta EXCEPT !["client_name"] = "Globex", !["audience"] = "engineers"]

\* dict.get(key): the default is dropped and a missing key yields None
MetaGetNoDefault(m, k, default) == IF m[k] = Absent THEN None ELSE m[k]

\* dict.get(key, default)
MetaGet(m, k, default) == IF m[k] = Absent THEN default ELSE m[k]

\* bodies of the HITL webhooks (WebhookPayload): for every workflow id one per
\* endpoint, each with its own content and metadata
BrandVoicePayloads ==
    [workflow_id : WfIds, content : {"brand voice analysis"}, metadata : {AcmeMeta}]
StyleCompliancePayloads ==
    [workflow_id : WfIds, content : {"style compliance report"}, metadata : {EmptyMeta}]
FinalQaPayloads ==
    [workflow_id : WfIds, content : {"final content"}, metadata : {GlobexMeta}]

\* bodies of POST /approvals/{workflow_id}/submit (ApprovalResponse): every
\* decision, each naming one checkpoint, so that each meets workflows at the
\* checkpoint it names and at the two others
ResponseBody(decision, checkpoint) ==
    [decision |-> decision, checkpoint |-> checkpoint, feedback |-> "looks good",
     reviewer_name |-> None, comments |-> None, specific_changes |-> <<"fix tone">>,
     timestamp |-> "2025-01-01T00:00:00"]

Responses ==
    {ResponseBody(APPROVE, BRAND_VOICE), ResponseBody(REJECT, STYLE_COMPLIANCE),
     ResponseBody(REVISE, FINAL_QA)}

(* ------------------------------- state --------------------------------- *)

VARIABLES
    workflows,     \* WorkflowStorage._workflows: workflow id -> workflow dict
    approvals,     \* WorkflowStorage._approvals, in insertion order
    now,           \* the reading of datetime.utcnow()
    cleanupTasks,  \* background cleanup tasks scheduled and not yet run
    storeCalls,    \* calls a client of the library has made on the store
    lastResp,      \* what the last request or call returned to its caller
    lock,          \* WorkflowStorage._lock: the thread that owns it, how often
    pc,            \* where each thread that uses the store stands
    seen,          \* what the reading thread has read so far
    finished,      \* the writing threads whose call has returned, in order
    held           \* the submission submit_approval is in the middle of

\* the threads' part of the state
threadVars == <<lock, pc, seen, finished, held>>

vars == <<workflows, approvals, now, cleanupTasks, storeCalls, lastResp, threadVars>>

(* ------------------------- WorkflowStorage ----------------------------- *)

\* create_workflow: the record it stores under workflow_id. The keys the
\* server adds to the dict later are there from the start: checkpoint_type as
\* Absent, approval_response and task_history as the empty tuple.
NewWorkflow(workflow_id, client_name, topic, content_type, audience, ai_language_code, t) ==
    [workflow_id |-> workflow_id,
     client_name |-> client_name,
     topic |-> topic,
     content_type |-> content_type,
     audience |-> audience,
     ai_language_code |-> ai_language_code,
     status |-> IN_PROGRESS,
     current_checkpoint |-> None,
     checkpoint_type |-> Absent,
     created_at |-> t,
     updated_at |-> t,
     task_outputs |-> <<>>,
     approval_history |-> <<>>,
     content |-> "",
     metadata |-> EmptyMeta,
     approval_request |-> <<>>,
     approval_response |-> <<>>,
     task_history |-> <<>>]

\* self._workflows = {workflow_id: workflow}: the dict is replaced
PutAlone(wfs, id, rec) == [w \in {id} |-> rec]

\* self._workflows[workflow_id] = workflow
Put(wfs, id, rec) == [w \in (DOMAIN wfs) \cup {id} |-> IF w = id THEN rec ELSE wfs[w]]

CreateWorkflow(wfs, workflow_id, client_name, topic, content_type, audience, ai_language_code, t) ==
    Put(wfs, workflow_id,
        NewWorkflow(workflow_id, client_name, topic, content_type, audience,
                    ai_language_code, t))

\* get_workflow on a defaultdict-like store: an unknown id yields a fresh record
GetWorkflowOrDefault(wfs, workflow_id) ==
    IF workflow_id \in DOMAIN wfs THEN <<wfs[workflow_id]>>
    ELSE <<[status |-> IN_PROGRESS, checkpoint_type |-> Absent]>>

\* get_workflow: the workflow in a one-element tuple, the empty tuple for None
GetWorkflow(wfs, workflow_id) ==
    IF workflow_id \in DOMAIN wfs THEN <<wfs[workflow_id]>> ELSE <<>>

\* the registry kept as a list: every save appends, known id or not
RegistryPutAppending(apprs, req) == Append(apprs, req)

\* the registry keyed by workflow: a save replaces the workflow's earlier entry
RegistryPutPerWorkflow(apprs, req) ==
    IF \E i \in 1..Len(apprs) : apprs[i].workflow_id = req.workflow_id
    THEN [i \in 1..Len(apprs) |->
            IF apprs[i].workflow_id = req.workflow_id THEN req ELSE apprs[i]]
    ELSE Append(apprs, req)

\* save_checkpoint_state without the registry write
RegistryPutSkipped(apprs, req) == apprs

\* self._approvals[approval_id] = approval_request on an insertion-ordered dict
RegistryPut(apprs, req) ==
    IF \E i \in 1..Len(apprs) : apprs[i].approval_id = req.approval_id
    THEN [i \in 1..Len(apprs) |->
            IF apprs[i].approval_id = req.approval_id THEN req ELSE apprs[i]]
    ELSE Append(apprs, req)

\* save_checkpoint_state: the store after the call
SaveCheckpointState(wfs, apprs, workflow_id, checkpoint_type, content, metadata, approval_request, t) ==
    LET base == IF workflow_id \in DOMAIN wfs
                THEN wfs
                ELSE CreateWorkflow(wfs, workflow_id,
                                    MetaGet(metadata, "client_name", "Unknown"),
                                    MetaGet(metadata, "topic", "Unknown"),
                                    MetaGet(metadata, "content_type", "unknown"),
                                    MetaGet(metadata, "audience", "unknown"),
                                    MetaGet(metadata, "ai_language_code", ""), t)
        rec == [base[workflow_id] EXCEPT
                    !.content = content,
                    !.metadata = metadata,
                    !.checkpoint_type = checkpoint_type,
                    !.current_checkpoint = checkpoint_type,
                    !.status = AWAITING_APPROVAL,
                    !.approval_request = <<approval_request>>,
                    !.updated_at = t]
    IN [workflows |-> Put(base, workflow_id, rec),
        approvals |-> RegistryPut(apprs, approval_request),
        result |-> TRUE]

\* workflow.update(updates) on the keys a workflow dict already has
ApplyUpdates(workflow, updates) ==
    [f \in DOMAIN workflow |->
        IF f \in DOMAIN updates THEN updates[f] ELSE workflow[f]]

\* update_workflow: the store after the call; result is FALSE for None
UpdateWorkflow(wfs, workflow_id, updates, t) ==
    IF workflow_id \notin DOMAIN wfs
    THEN [workflows |-> wfs, result |-> FALSE]
    ELSE [workflows |->
            [wfs EXCEPT ![workflow_id] =
                [ApplyUpdates(@, updates) EXCEPT !.updated_at = t]],
          result |-> TRUE]

\* update_workflow_status that refuses to move a workflow out of
\* AWAITING_APPROVAL
UpdateWorkflowStatusGuarded(wfs, workflow_id, status, checkpoint, t) ==
    IF workflow_id \notin DOMAIN wfs \/ wfs[workflow_id].status = AWAITING_APPROVAL
    THEN [workflows |-> wfs, result |-> FALSE]
    ELSE [workflows |->
            [wfs EXCEPT ![workflow_id] =
                [@ EXCEPT !.status = status,
                          !.current_checkpoint =
                              IF checkpoint # None THEN checkpoint ELSE @,
                          !.updated_at = t]],
          result |-> TRUE]

\* update_workflow_status that writes the checkpoint argument even when it
\* is None
UpdateWorkflowStatusClearsCheckpoint(wfs, workflow_id, status, checkpoint, t) ==
    IF workflow_id \notin DOMAIN wfs
    THEN [workflows |-> wfs, result |-> FALSE]
    ELSE [workflows |->
            [wfs EXCEPT ![workflow_id] =
                [@ EXCEPT !.status = status,
                          !.current_checkpoint = checkpoint,
                          !.updated_at = t]],
          result |-> TRUE]

\* update_workflow_status that stamps created_at where it should stamp
\* updated_at
UpdateWorkflowStatusStampsCreatedAt(wfs, workflow_id, status, checkpoint, t) ==
    IF workflow_id \notin DOMAIN wfs
    THEN [workflows |-> wfs, result |-> FALSE]
    ELSE [workflows |->
            [wfs EXCEPT ![workflow_id] =
                [@ EXCEPT !.status = status,
                          !.current_checkpoint =
                              IF checkpoint # None THEN checkpoint ELSE @,
                          !.created_at = t]],
          result |-> TRUE]

\* update_workflow_status that stamps updated_at and forgets the status
UpdateWorkflowStatusStampOnly(wfs, workflow_id, status, checkpoint, t) ==
    IF workflow_id \notin DOMAIN wfs
    THEN [workflows |-> wfs, result |-> FALSE]
    ELSE [workflows |-> [wfs EXCEPT ![workflow_id].updated_at = t],
          result |-> TRUE]

\* update_workflow_status: the store after the call and the boolean returned
UpdateWorkflowStatus(wfs, workflow_id, status, checkpoint, t) ==
    IF workflow_id \notin DOMAIN wfs
    THEN [workflows |-> wfs, result |-> FALSE]
    ELSE [workflows |->
            [wfs EXCEPT ![workflow_id] =
                [@ EXCEPT !.status = status,
                          !.current_checkpoint =
                              IF checkpoint # None THEN checkpoint ELSE @,
                          !.updated_at = t]],
          result |-> TRUE]

\* workflow["task_outputs"][task_name] = output
TaskOutputsPut(task_outputs, task_name, output) ==
    [n \in (DOMAIN task_outputs) \cup {task_name} |->
        IF n = task_name THEN output ELSE task_outputs[n]]

\* save_task_output: the store after the call and the boolean returned
SaveTaskOutput(wfs, workflow_id, task_name, output, t) ==
    IF workflow_id \notin DOMAIN wfs
    THEN [workflows |-> wfs, result |-> FALSE]
    ELSE [workflows |->
            [wfs EXCEPT ![workflow_id] =
                [@ EXCEPT !.task_outputs = TaskOutputsPut(@, task_name, output),
                          !.updated_at = t]],
          result |-> TRUE]

\* the approval_record of record_approval_decision
ApprovalRecord(checkpoint, decision, feedback, t) ==
    [checkpoint |-> checkpoint, decision |-> decision, feedback |-> feedback,
     timestamp |-> t]

\* record_approval_decision that keeps only the latest decision
RecordApprovalDecisionReplacing(wfs, workflow_id, checkpoint, decision, feedback, t) ==
    IF workflow_id \notin DOMAIN wfs
    THEN [workflows |-> wfs, result |-> FALSE]
    ELSE [workflows |->
            [wfs EXCEPT ![workflow_id] =
                [@ EXCEPT !.approval_history =
                              <<ApprovalRecord(checkpoint, decision, feedback, t)>>,
                          !.updated_at = t]],
          result |-> TRUE]

\* record_approval_decision: the store after the call and the boolean returned
RecordApprovalDecision(wfs, workflow_id, checkpoint, decision, feedback, t) ==
    IF workflow_id \notin DOMAIN wfs
    THEN [workflows |-> wfs, result |-> FALSE]
    ELSE [workflows |->
            [wfs EXCEPT ![workflow_id] =
                [@ EXCEPT !.approval_history =
                              Append(@, ApprovalRecord(checkpoint, decision, feedback, t)),
                          !.updated_at = t]],
          result |-> TRUE]

\* summaries.sort(key=lambda x: x.created_at, reverse=True): newest first
RECURSIVE InsertByCreatedAtNewestFirst(_, _)
InsertByCreatedAtNewestFirst(sorted, x) ==
    IF sorted = <<>> THEN <<x>>
    ELSE IF sorted[Len(sorted)].created_at >= x.created_at
         THEN Append(sorted, x)
         ELSE Append(InsertByCreatedAtNewestFirst(SubSeq(sorted, 1, Len(sorted) - 1), x),
                     sorted[Len(sorted)])

\* summaries.sort(key=lambda x: x.created_at): a stable sort
RECURSIVE InsertByCreatedAt(_, _)
InsertByCreatedAt(sorted, x) ==
    IF sorted = <<>> THEN <<x>>
    ELSE IF sorted[Len(sorted)].created_at <= x.created_at
         THEN Append(sorted, x)
         ELSE Append(InsertByCreatedAt(SubSeq(sorted, 1, Len(sorted) - 1), x),
                     sorted[Len(sorted)])

RECURSIVE SortByCreatedAt(_)
SortByCreatedAt(s) ==
    IF s = <<>> THEN <<>>
    ELSE InsertByCreatedAt(SortByCreatedAt(SubSeq(s, 1, Len(s) - 1)), s[Len(s)])

\* get_pending_approvals without the status test
IsPendingAnyStatus(wfs, approval) == approval.workflow_id \in DOMAIN wfs

\* the test of the loop of get_pending_approvals that lets an entry through
IsPending(wfs, approval) ==
    /\ approval.workflow_id \in DOMAIN wfs
    /\ wfs[approval.workflow_id].status = AWAITING_APPROVAL

\* the summary with client_name and topic taken from the metadata of the last
\* checkpoint notification
PendingApprovalSummaryFromMetadata(wfs, approval) ==
    [workflow_id |-> approval.workflow_id,
     checkpoint |-> approval.checkpoint_type,
     client_name |-> MetaGet(wfs[approval.workflow_id].metadata, "client_name", "Unknown"),
     topic |-> MetaGet(wfs[approval.workflow_id].metadata, "topic", "Unknown"),
     created_at |-> approval.created_at,
     approval_id |-> approval.approval_id]

\* PendingApprovalSummary(...) as get_pending_approvals builds it
PendingApprovalSummary(wfs, approval) ==
    [workflow_id |-> approval.workflow_id,
     checkpoint |-> approval.checkpoint_type,
     client_name |-> wfs[approval.workflow_id].client_name,
     topic |-> wfs[approval.workflow_id].topic,
     created_at |-> approval.created_at,
     approval_id |-> approval.approval_id]

RECURSIVE PendingSummaries(_, _)
PendingSummaries(wfs, apprs) ==
    IF apprs = <<>> THEN <<>>
    ELSE LET rest == PendingSummaries(wfs, SubSeq(apprs, 1, Len(apprs) - 1))
             last == apprs[Len(apprs)]
         IN IF IsPending(wfs, last)
            THEN Append(rest, PendingApprovalSummary(wfs, last))
            ELSE rest

\* get_pending_approvals
GetPendingApprovals(wfs, apprs) == SortByCreatedAt(PendingSummaries(wfs, apprs))

\* listPending() of the current store
ListPending == GetPendingApprovals(workflows, approvals)

\* cleanup_old_workflows(days) that spares the workflows awaiting approval
CleanupOldWorkflowsSparingAwaiting(wfs, days, t) ==
    LET cutoff == t - 24 * days
        to_remove == {w \in DOMAIN wfs :
                         /\ wfs[w].updated_at < cutoff
                         /\ wfs[w].status # AWAITING_APPROVAL}
    IN [workflows |-> [w \in (DOMAIN wfs) \ to_remove |-> wfs[w]],
        result |-> Cardinality(to_remove)]

\* cleanup_old_workflows(days): the workflows it leaves
CleanupOldWorkflows(wfs, days, t) ==
    LET cutoff == t - 24 * days
        to_remove == {w \in DOMAIN wfs : wfs[w].updated_at < cutoff}
    IN [workflows |-> [w \in (DOMAIN wfs) \ to_remove |-> wfs[w]],
        result |-> Cardinality(to_remove)]

\* the hours the webhooks pass to the module-level cleanup_old_workflows
CleanupHours == 24

\* module-level cleanup_old_workflows(hours)
CleanupOldWorkflowsHours(wfs, hours, t) ==
    LET days == IF hours \div 24 < 1 THEN 1 ELSE hours \div 24
    IN CleanupOldWorkflows(wfs, days, t)

(* ----------------------- checkpoint handlers --------------------------- *)

\* the options default of ApprovalRequest
DefaultOptions == <<"approve", "reject", "revise">>

\* handle_brand_voice_checkpoint
HandleBrandVoiceCheckpoint(payload, approval_id, t) ==
    LET client_name == MetaGet(payload.metadata, "client_name", "Unknown Client")
        topic == MetaGet(payload.metadata, "topic", "Unknown Topic")
    IN [approval_id |-> approval_id,
        workflow_id |-> payload.workflow_id,
        checkpoint_type |-> BRAND_VOICE,
        title |-> "Brand Voice Analysis: " \o client_name \o " - " \o topic,
        description |-> "The Brand Voice Specialist has analyzed the client's existing content and generated AI Language Code parameters. Please review the analysis and approve if the parameters accurately capture the brand's voice.",
        content |-> payload.content,
        questions |-> <<"Do the AI Language Code parameters match the client's brand voice?",
                        "Is the tone analysis accurate?",
                        "Are the vocabulary and formality levels appropriate?">>,
        options |-> DefaultOptions,
        metadata |-> EmptyMeta,
        created_at |-> t,
        priority |-> "high"]

\* handle_style_compliance_checkpoint
HandleStyleComplianceCheckpoint(payload, approval_id, t) ==
    LET client_name == MetaGet(payload.metadata, "client_name", "Unknown Client")
        topic == MetaGet(payload.metadata, "topic", "Unknown Topic")
    IN [approval_id |-> approval_id,
        workflow_id |-> payload.workflow_id,
        checkpoint_type |-> STYLE_COMPLIANCE,
        title |-> "Style Compliance Review: " \o client_name \o " - " \o topic,
        description |-> "The Style Compliance Agent has reviewed content adherence to brand voice and style guidelines. Please approve if the content matches the approved brand voice parameters.",
        content |-> payload.content,
        questions |-> <<"Does the content match the approved brand voice?",
                        "Are all style guidelines followed?",
                        "Is the tone consistent throughout?">>,
        options |-> DefaultOptions,
        metadata |-> EmptyMeta,
        created_at |-> t,
        priority |-> "medium"]

\* handle_final_qa_checkpoint
HandleFinalQaCheckpoint(payload, approval_id, t) ==
    LET client_name == MetaGet(payload.metadata, "client_name", "Unknown Client")
        topic == MetaGet(payload.metadata, "topic", "Unknown Topic")
    IN [approval_id |-> approval_id,
        workflow_id |-> payload.workflow_id,
        checkpoint_type |-> FINAL_QA,
        title |-> "Final QA: " \o client_name \o " - " \o topic \o " (Ready for Delivery)",
        description |-> "The Quality Assurance Editor has completed final review. This is the last checkpoint before content delivery. Please provide final approval or request any last-minute changes.",
        content |-> payload.content,
        questions |-> <<"Is the content ready for publication?",
                        "Are all quality standards met?",
                        "Are there any last-minute changes needed?">>,
        options |-> DefaultOptions,
        metadata |-> EmptyMeta,
        created_at |-> t,
        priority |-> "high"]

(* ------------------------- decision processor -------------------------- *)

\* _get_approval_info
GetApprovalInfo(checkpoint_type) ==
    CASE checkpoint_type = BRAND_VOICE ->
            [next_action |-> "proceed_to_content_strategy",
             message |-> "Brand voice approved. Content Strategy task will begin.",
             next_task |-> "content_strategy_task"]
      [] checkpoint_type = STYLE_COMPLIANCE ->
            [next_action |-> "proceed_to_final_qa",
             message |-> "Style compliance approved. Final QA task will begin.",
             next_task |-> "final_quality_assurance_task"]
      [] checkpoint_type = FINAL_QA ->
            [next_action |-> "deliver_content",
             message |-> "Final QA approved. Content is ready for delivery.",
             next_task |-> "content_delivery_task"]
      [] OTHER ->
            [next_action |-> "unknown",
             message |-> "Approval recorded but next action unclear."]

\* response.specific_changes or []
ChangesOrEmpty(response) == response.specific_changes

\* _get_rejection_info restarting every checkpoint from its own task
GetRejectionInfoOwnTask(checkpoint_type, response) ==
    [next_action |-> "restart_from_" \o checkpoint_type,
     message |-> "Rejected. Will restart from " \o checkpoint_type \o " task.",
     issues |-> ChangesOrEmpty(response)]

\* _get_rejection_info
GetRejectionInfo(checkpoint_type, response) ==
    CASE checkpoint_type = "brand_voice" ->
            [next_action |-> "restart_from_brand_voice",
             message |-> "Rejected. Will restart from Brand Voice Analysis task.",
             restart_task |-> "brand_voice_analysis_task",
             issues |-> ChangesOrEmpty(response)]
      [] checkpoint_type = "style_compliance" ->
            [next_action |-> "restart_from_content_generation",
             message |-> "Rejected. Will restart from Content Generation task.",
             restart_task |-> "content_generation_task",
             issues |-> ChangesOrEmpty(response)]
      [] checkpoint_type = "final_qa" ->
            [next_action |-> "restart_from_style_compliance",
             message |-> "Rejected. Will restart from Style Compliance Review task.",
             restart_task |-> "style_compliance_review_task",
             issues |-> ChangesOrEmpty(response)]
      [] OTHER ->
            [next_action |-> "unknown",
             message |-> "Rejection recorded but restart action unclear.",
             issues |-> ChangesOrEmpty(response)]

\* checkpoint_value.replace('_', ' ').title() on the three checkpoint values
TitleCase(checkpoint_value) ==
    CASE checkpoint_value = "brand_voice" -> "Brand Voice"
      [] checkpoint_value = "style_compliance" -> "Style Compliance"
      [] checkpoint_value = "final_qa" -> "Final Qa"

\* _get_revision_info
GetRevisionInfo(checkpoint_type, response) ==
    [next_action |-> "revise_" \o checkpoint_type,
     message |-> "Revision requested. " \o TitleCase(checkpoint_type)
                    \o " Agent will address issues.",
     revision_items |-> ChangesOrEmpty(response),
     feedback |-> response.feedback]

\* workflow_state.get("checkpoint_type", "unknown")
CheckpointTypeValue(workflow_state) ==
    IF workflow_state.checkpoint_type = Absent THEN "unknown"
    ELSE workflow_state.checkpoint_type

\* process_approval_decision: ok is FALSE when _ensure_checkpoint_enum raises
ProcessApprovalDecision(workflow_id, workflow_state, response) ==
    LET checkpoint_type == CheckpointTypeValue(workflow_state)
    IN IF checkpoint_type \notin CheckpointType
       THEN [ok |-> FALSE, next_action |-> None, message |-> None]
       ELSE LET result ==
                    IF response.decision = APPROVE
                    THEN GetApprovalInfo(checkpoint_type)
                    ELSE IF response.decision = REJECT
                    THEN GetRejectionInfo(checkpoint_type, response)
                    ELSE GetRevisionInfo(checkpoint_type, response)
            IN [ok |-> TRUE,
                next_action |-> result.next_action,
                message |-> result.message]

(* ------------------------------ endpoints ------------------------------ *)

\* a reply with every field the endpoints may fill in; wf is the workflow_id
\* of the body, NoId in the replies that carry none (errors, acknowledgements)
Reply(op, wf, code) ==
    [op |-> op, wf |-> wf, code |-> code, status |-> None, decision |-> None,
     checkpoint |-> None, next_action |-> None, message |-> None,
     approval_id |-> 0, count |-> 0]

\* an id generator that hands out the same id every time
NewApprovalIdFixed(apprs) == 1

\* uuid.uuid4(): an id no entry of the registry carries
NewApprovalId(apprs) == Len(apprs) + 1

\* submit_approval with the reject branch missing: reject falls into the else
DecisionStatusNoReject(decision) ==
    IF decision = APPROVE THEN APPROVED ELSE REVISION_REQUESTED

\* the status submit_approval picks for a decision
DecisionStatus(decision) ==
    IF decision = APPROVE THEN APPROVED
    ELSE IF decision = REJECT THEN REJECTED
    ELSE REVISION_REQUESTED

\* response.dict()
ResponseDict(response) ==
    [decision |-> response.decision,
     checkpoint |-> response.checkpoint,
     feedback |-> response.feedback,
     reviewer_name |-> response.reviewer_name,
     comments |-> response.comments,
     specific_changes |-> response.specific_changes,
     timestamp |-> response.timestamp]

\* the body of the three HITL webhooks, which differ in handler and checkpoint
HitlWebhook(op, checkpoint_type, approval_request, payload) ==
    LET saved == SaveCheckpointState(workflows, approvals, payload.workflow_id,
                                     checkpoint_type, payload.content,
                                     payload.metadata, approval_request, now)
    IN /\ workflows' = saved.workflows
       /\ approvals' = saved.approvals
       /\ cleanupTasks < MaxCleanupBacklog
       /\ cleanupTasks' = cleanupTasks + 1
       /\ lastResp' = [Reply(op, payload.workflow_id, 200) EXCEPT
                          !.status = "received",
                          !.checkpoint = checkpoint_type,
                          !.approval_id = approval_request.approval_id]
       /\ UNCHANGED <<now, storeCalls, threadVars>>

\* POST /api/v1/webhook/hitl/brand-voice
BrandVoiceWebhook(payload) ==
    /\ Len(approvals) < MaxApprovals
    /\ HitlWebhook("brand_voice_webhook", BRAND_VOICE,
                   HandleBrandVoiceCheckpoint(payload, NewApprovalId(approvals), now),
                   payload)

\* POST /api/v1/webhook/hitl/style-compliance
StyleComplianceWebhook(payload) ==
    /\ Len(approvals) < MaxApprovals
    /\ HitlWebhook("style_compliance_webhook", STYLE_COMPLIANCE,
                   HandleStyleComplianceCheckpoint(payload, NewApprovalId(approvals), now),
                   payload)

\* POST /api/v1/webhook/hitl/final-qa
FinalQaWebhook(payload) ==
    /\ Len(approvals) < MaxApprovals
    /\ HitlWebhook("final_qa_webhook", FINAL_QA,
                   HandleFinalQaCheckpoint(payload, NewApprovalId(approvals), now),
                   payload)

\* the status test of submit_approval left out: every decision is processed
NotAwaitingApprovalUnchecked(state) == FALSE

\* state["status"] != WorkflowStatus.AWAITING_APPROVAL
NotAwaitingApproval(state) == state.status # AWAITING_APPROVAL

\* POST /approvals/{workflow_id}/submit
SubmitApproval(workflow_id, response) ==
    LET ok == Reply("submit_approval", workflow_id, 200)
        error == Reply("submit_approval", NoId, 0)
    IN IF GetWorkflow(workflows, workflow_id) = <<>>
       THEN /\ lastResp' = [error EXCEPT !.code = 404]
            /\ UNCHANGED <<workflows, approvals, now, cleanupTasks, storeCalls, threadVars>>
       ELSE LET state == GetWorkflow(workflows, workflow_id)[1]
                result == ProcessApprovalDecision(workflow_id, state, response)
                updated == UpdateWorkflowStatus(workflows, workflow_id,
                                                DecisionStatus(response.decision),
                                                None, now)
            IN IF NotAwaitingApproval(state)
               THEN /\ lastResp' = [error EXCEPT !.code = 400, !.status = state.status]
                    /\ UNCHANGED <<workflows, approvals, now, cleanupTasks, storeCalls, threadVars>>
               ELSE IF ~result.ok
               THEN /\ lastResp' = [error EXCEPT !.code = 500]
                    /\ UNCHANGED <<workflows, approvals, now, cleanupTasks, storeCalls, threadVars>>
               ELSE /\ workflows' =
                          [updated.workflows EXCEPT ![workflow_id] =
                              [@ EXCEPT !.approval_response =
                                            <<ResponseDict(response)>>,
                                        !.updated_at = now]]
                    /\ lastResp' = [ok EXCEPT !.status = "success",
                                                !.decision = response.decision,
                                                !.next_action = result.next_action,
                                                !.message = result.message]
                    /\ UNCHANGED <<approvals, now, cleanupTasks, storeCalls, threadVars>>

\* GET /workflows/{workflow_id}
GetWorkflowDetails(workflow_id) ==
    /\ lastResp' =
          IF GetWorkflow(workflows, workflow_id) = <<>>
          THEN Reply("get_workflow_details", NoId, 404)
          ELSE LET state == GetWorkflow(workflows, workflow_id)[1]
               IN IF state.checkpoint_type = Absent
                  THEN Reply("get_workflow_details", NoId, 500)
                  ELSE [Reply("get_workflow_details", workflow_id, 200) EXCEPT
                           !.status = state.status,
                           !.checkpoint = state.checkpoint_type]
    /\ UNCHANGED <<workflows, approvals, now, cleanupTasks, storeCalls, threadVars>>

\* GET /approvals/pending
GetPendingApprovalsApi ==
    /\ lastResp' = [Reply("get_pending_approvals_api", NoId, 200) EXCEPT
                       !.count = Len(ListPending)]
    /\ UNCHANGED <<workflows, approvals, now, cleanupTasks, storeCalls, threadVars>>

\* POST /api/v1/webhook/agent-completion
AgentCompletionWebhook(workflow_id) ==
    /\ workflows' =
          IF workflow_id # NoId
          THEN UpdateWorkflowStatus(workflows, workflow_id, COMPLETED, None, now).workflows
          ELSE workflows
    /\ lastResp' = [Reply("agent_completion_webhook", NoId, 200) EXCEPT
                       !.status = "received"]
    /\ UNCHANGED <<approvals, now, cleanupTasks, storeCalls, threadVars>>

\* POST /api/v1/webhook/error-notification
ErrorNotificationWebhook(workflow_id) ==
    /\ workflows' =
          IF workflow_id # NoId
          THEN UpdateWorkflowStatus(workflows, workflow_id, FAILED, None, now).workflows
          ELSE workflows
    /\ lastResp' = [Reply("error_notification_webhook", NoId, 200) EXCEPT
                       !.status = "received"]
    /\ UNCHANGED <<approvals, now, cleanupTasks, storeCalls, threadVars>>

\* bodies of POST /api/v1/webhook/task-status
TaskStatusPayloads ==
    [workflow_id : WfIds, task_id : {"brand_voice_analysis_task"}, status : {"completed"}]

\* the task-status notifications logged so far, over all workflows
TaskReports ==
    LET RECURSIVE Sum(_)
        Sum(S) == IF S = {} THEN 0
                  ELSE LET w == CHOOSE x \in S : TRUE
                       IN Len(workflows[w].task_history) + Sum(S \ {w})
    IN Sum(DOMAIN workflows)

\* POST /api/v1/webhook/task-status
TaskStatusWebhook(payload) ==
    /\ TaskReports < MaxTaskReports
    /\ workflows' =
          IF payload.workflow_id # NoId
                /\ GetWorkflow(workflows, payload.workflow_id) # <<>>
          THEN [workflows EXCEPT ![payload.workflow_id].task_history =
                    Append(@, [task_id |-> payload.task_id,
                               status |-> payload.status,
                               timestamp |-> now])]
          ELSE workflows
    /\ lastResp' = [Reply("task_status_webhook", NoId, 200) EXCEPT
                       !.status = "received"]
    /\ UNCHANGED <<approvals, now, cleanupTasks, storeCalls, threadVars>>

\* background_tasks.add_task(cleanup_old_workflows, hours=24), when it runs
CleanupTask ==
    /\ cleanupTasks > 0
    /\ LET swept == CleanupOldWorkflowsHours(workflows, CleanupHours, now)
       IN /\ workflows' = swept.workflows
          /\ lastResp' = [Reply("cleanup_old_workflows", NoId, 0) EXCEPT
                             !.count = swept.result]
    /\ cleanupTasks' = cleanupTasks - 1
    /\ UNCHANGED <<approvals, now, storeCalls, threadVars>>

\* time passes between two requests
Tick ==
    /\ now < MaxTicks * TickHours
    /\ now' = now + TickHours
    /\ UNCHANGED <<workflows, approvals, cleanupTasks, storeCalls, lastResp, threadVars>>

(* ------------------- threads sharing the store ------------------------- *)

\* two threads that each call save_checkpoint_state for the same workflow,
\* and one that calls get_workflow and reads the dict it is handed
Writers == {"writer_1", "writer_2"}
Reader == "reader"
Threads == Writers \cup {Reader}

\* the workflow the threads meet on
RaceWf == "wf_1"

\* the arguments of each writer's save_checkpoint_state call
WriterPayload(th) ==
    IF th = "writer_1"
    THEN [workflow_id |-> RaceWf, content |-> "style compliance report",
          metadata |-> EmptyMeta]
    ELSE [workflow_id |-> RaceWf, content |-> "final content",
          metadata |-> GlobexMeta]

WriterCheckpoint(th) == IF th = "writer_1" THEN STYLE_COMPLIANCE ELSE FINAL_QA

\* uuid.uuid4() in each writer's handler: ids that differ
WriterApprovalId(th) == IF th = "writer_1" THEN 1 ELSE 2

WriterRequest(th) ==
    IF th = "writer_1"
    THEN HandleStyleComplianceCheckpoint(WriterPayload(th), WriterApprovalId(th), 0)
    ELSE HandleFinalQaCheckpoint(WriterPayload(th), WriterApprovalId(th), 0)

\* threading.RLock with nobody inside
Unlocked == [owner |-> None, count |-> 0]

\* a lock that lets every thread in, whoever owns it
LockAvailableAlways(l, th) == TRUE

\* a plain Lock: acquire returns only when nobody holds it, not even th
LockAvailableNonReentrant(l, th) == l.owner = None

\* RLock.acquire returns at once: the lock is free or th owns it already
LockAvailable(l, th) == l.owner \in {None, th}

\* RLock.acquire, once it returns
Acquired(l, th) == [owner |-> th, count |-> l.count + 1]

\* RLock.release
Released(l) ==
    IF l.count <= 1 THEN Unlocked ELSE [owner |-> l.owner, count |-> l.count - 1]

\* the statements of save_checkpoint_state after the lookup, in order
WriteSteps ==
    <<"content", "metadata", "checkpoint_type", "current_checkpoint", "status",
      "approval_request", "updated_at">>

\* the value save_checkpoint_state assigns to field f in thread th
WrittenValue(th, f) ==
    CASE f = "content" -> WriterPayload(th).content
      [] f = "metadata" -> WriterPayload(th).metadata
      [] f = "checkpoint_type" -> WriterCheckpoint(th)
      [] f = "current_checkpoint" -> WriterCheckpoint(th)
      [] f = "status" -> AWAITING_APPROVAL
      [] f = "approval_request" -> <<WriterRequest(th)>>
      [] f = "updated_at" -> now

\* the label after write step f
AfterWrite(f) ==
    LET i == CHOOSE k \in 1..Len(WriteSteps) : WriteSteps[k] = f
    IN IF i < Len(WriteSteps) THEN WriteSteps[i + 1] ELSE "registry"

StepTo(th, label) == pc' = [pc EXCEPT ![th] = label]

\* save_checkpoint_state: with self._lock
WriterLock(th) ==
    /\ pc[th] = "start"
    /\ LockAvailable(lock, th)
    /\ lock' = Acquired(lock, th)
    /\ StepTo(th, "lookup")
    /\ UNCHANGED <<workflows, approvals, seen, finished>>

\* workflow = self._workflows.get(workflow_id); if not workflow:
WriterLookup(th) ==
    /\ pc[th] = "lookup"
    /\ StepTo(th, IF RaceWf \in DOMAIN workflows THEN "content" ELSE "create_lock")
    /\ UNCHANGED <<workflows, approvals, lock, seen, finished>>

\* create_workflow: with self._lock, entered by the thread that holds it
WriterCreateLock(th) ==
    /\ pc[th] = "create_lock"
    /\ LockAvailable(lock, th)
    /\ lock' = Acquired(lock, th)
    /\ StepTo(th, "create_put")
    /\ UNCHANGED <<workflows, approvals, seen, finished>>

\* create_workflow: self._workflows[workflow_id] = workflow, and the end of
\* its with block
WriterCreatePut(th) ==
    /\ pc[th] = "create_put"
    /\ LET metadata == WriterPayload(th).metadata
       IN workflows' =
             CreateWorkflow(workflows, RaceWf,
                            MetaGet(metadata, "client_name", "Unknown"),
                            MetaGet(metadata, "topic", "Unknown"),
                            MetaGet(metadata, "content_type", "unknown"),
                            MetaGet(metadata, "audience", "unknown"),
                            MetaGet(metadata, "ai_language_code", ""), now)
    /\ lock' = Released(lock)
    /\ StepTo(th, "content")
    /\ UNCHANGED <<approvals, seen, finished>>

\* workflow[f] = ... : one of the seven assignments
WriterWrite(th, f) ==
    /\ pc[th] = f
    /\ workflows' = [workflows EXCEPT ![RaceWf][f] = WrittenValue(th, f)]
    /\ StepTo(th, AfterWrite(f))
    /\ UNCHANGED <<approvals, lock, seen, finished>>

\* self._approvals[approval_request.approval_id] = approval_request, return
\* True and the end of the with block
WriterRegister(th) ==
    /\ pc[th] = "registry"
    /\ approvals' = RegistryPut(approvals, WriterRequest(th))
    /\ lock' = Released(lock)
    /\ finished' = Append(finished, th)
    /\ StepTo(th, "done")
    /\ UNCHANGED <<workflows, seen>>

\* the fields a reader looks at, in the order get_workflow_details reads them
\* from the dict; current_checkpoint, assigned next to checkpoint_type, is read
\* as well
ReadSteps ==
    <<"approval_request", "status", "checkpoint_type", "current_checkpoint",
      "content">>

\* nothing read yet
NothingSeen == [at_get |-> <<>>, read |-> <<>>]

\* the fields of a workflow dict a reader looks at, in the order of ReadSteps
ReadFields(workflow) == [i \in 1..Len(ReadSteps) |-> workflow[ReadSteps[i]]]

\* get_workflow: the dict itself is returned, the lock is let go
ReaderGet ==
    /\ pc[Reader] = "start"
    /\ LockAvailable(lock, Reader)
    /\ IF GetWorkflow(workflows, RaceWf) = <<>>
       THEN /\ StepTo(Reader, "done")
            /\ UNCHANGED seen
       ELSE /\ StepTo(Reader, "read")
            /\ seen' = [at_get |-> ReadFields(workflows[RaceWf]), read |-> <<>>]
    /\ UNCHANGED <<workflows, approvals, lock, finished>>

\* state["status"], state["current_checkpoint"], ...: the next field is read
\* from the dict, with no lock held
ReaderRead ==
    /\ pc[Reader] = "read"
    /\ LET f == ReadSteps[Len(seen.read) + 1]
       IN seen' = [seen EXCEPT !.read = Append(@, workflows[RaceWf][f])]
    /\ StepTo(Reader, IF Len(seen.read) + 1 = Len(ReadSteps) THEN "done" ELSE "read")
    /\ UNCHANGED <<workflows, approvals, lock, finished>>

(* --------------------------- specification ----------------------------- *)

Init ==
    /\ workflows = <<>>
    /\ approvals = <<>>
    /\ now = 0
    /\ cleanupTasks = 0
    /\ storeCalls = 0
    /\ lastResp = Reply("start", NoId, 0)
    /\ lock = Unlocked
    /\ pc = [th \in Threads |-> "start"]
    /\ seen = NothingSeen
    /\ finished = <<>>
    /\ held = <<>>

BrandVoice == \E payload \in BrandVoicePayloads : BrandVoiceWebhook(payload)
StyleCompliance == \E payload \in StyleCompliancePayloads : StyleComplianceWebhook(payload)
FinalQa == \E payload \in FinalQaPayloads : FinalQaWebhook(payload)
Submit == \E w \in WfIds, response \in Responses : SubmitApproval(w, response)
Details == \E w \in WfIds : GetWorkflowDetails(w)
AgentCompletion == \E w \in WfIds : AgentCompletionWebhook(w)
ErrorNotification == \E w \in WfIds : ErrorNotificationWebhook(w)

Next ==
    \/ BrandVoice
    \/ StyleCompliance
    \/ FinalQa
    \/ Submit
    \/ Details
    \/ GetPendingApprovalsApi
    \/ AgentCompletion
    \/ ErrorNotification
    \/ CleanupTask
    \/ Tick

Spec == Init /\ [][Next]_vars

(* ------------------------- the store under threads --------------------- *)

\* the next statement of writer th
WriterRun(th) ==
    /\ \/ WriterLock(th)
       \/ WriterLookup(th)
       \/ WriterCreateLock(th)
       \/ WriterCreatePut(th)
       \/ \E i \in 1..Len(WriteSteps) : WriterWrite(th, WriteSteps[i])
       \/ WriterRegister(th)
    /\ UNCHANGED <<now, cleanupTasks, storeCalls, lastResp, held>>

WriterStep == \E th \in Writers : WriterRun(th)

ReaderStep ==
    /\ ReaderGet \/ ReaderRead
    /\ UNCHANGED <<now, cleanupTasks, storeCalls, lastResp, held>>

NextRace ==
    \/ WriterStep
    \/ ReaderStep
    \/ Tick

SpecRace == Init /\ [][NextRace]_vars

\* the threads under a fair scheduler: a thread that can take its next
\* statement is not passed over forever
SpecRaceFair ==
    /\ Init
    /\ [][NextRace]_vars
    /\ \A th \in Writers : WF_vars(WriterRun(th))
    /\ WF_vars(ReaderStep)

(* ------------- the server beside its background cleanup --------------- *)

\* submit_approval up to its call of update_workflow_status: the lookup, the
\* two tests and the decision processor. A submission that passes them is held
\* with its workflow id, its body and the processor's result.
SubmitApprovalCheck(workflow_id, response) ==
    LET error == Reply("submit_approval", NoId, 0)
    IN /\ held = <<>>
       /\ IF GetWorkflow(workflows, workflow_id) = <<>>
          THEN /\ lastResp' = [error EXCEPT !.code = 404]
               /\ UNCHANGED held
          ELSE LET state == GetWorkflow(workflows, workflow_id)[1]
                   result == ProcessApprovalDecision(workflow_id, state, response)
               IN IF NotAwaitingApproval(state)
                  THEN /\ lastResp' = [error EXCEPT !.code = 400, !.status = state.status]
                       /\ UNCHANGED held
                  ELSE IF ~result.ok
                  THEN /\ lastResp' = [error EXCEPT !.code = 500]
                       /\ UNCHANGED held
                  ELSE /\ held' = <<[workflow_id |-> workflow_id,
                                     response |-> response,
                                     result |-> result]>>
                       /\ UNCHANGED lastResp
       /\ UNCHANGED <<workflows, approvals, now, cleanupTasks, storeCalls,
                      lock, pc, seen, finished>>

\* submit_approval from update_workflow_status(workflow_id, new_status) on: the
\* value the call returns is dropped, approval_response and updated_at are
\* written to the dict obtained before, which is in the store only if the
\* workflow still is, and the reply is built
SubmitApprovalUpdate ==
    /\ held # <<>>
    /\ LET workflow_id == held[1].workflow_id
           response == held[1].response
           result == held[1].result
           updated == UpdateWorkflowStatus(workflows, workflow_id,
                                           DecisionStatus(response.decision),
                                           None, now)
       IN /\ workflows' =
                IF workflow_id \in DOMAIN workflows
                THEN [updated.workflows EXCEPT ![workflow_id] =
                         [@ EXCEPT !.approval_response = <<ResponseDict(response)>>,
                                   !.updated_at = now]]
                ELSE updated.workflows
          /\ lastResp' = [Reply("submit_approval", workflow_id, 200) EXCEPT
                             !.status = "success",
                             !.decision = response.decision,
                             !.next_action = result.next_action,
                             !.message = result.message]
    /\ held' = <<>>
    /\ UNCHANGED <<approvals, now, cleanupTasks, storeCalls, lock, pc, seen, finished>>

\* the event loop is between two requests
LoopIdle == held = <<>>

SubmitCheck ==
    \E w \in WfIds, response \in Responses : SubmitApprovalCheck(w, response)

\* requests are served one at a time on the event loop; the cleanup task runs
\* on a worker thread and may run while a submission is held
NextSweep ==
    \/ LoopIdle /\ BrandVoice
    \/ LoopIdle /\ StyleCompliance
    \/ LoopIdle /\ FinalQa
    \/ SubmitCheck
    \/ SubmitApprovalUpdate
    \/ LoopIdle /\ AgentCompletion
    \/ LoopIdle /\ ErrorNotification
    \/ CleanupTask
    \/ Tick

SpecSweep == Init /\ [][NextSweep]_vars

(* ----------------- the server with its request boundary ---------------- *)

\* bodies a client may post to /approvals/{workflow_id}/submit: the well-formed
\* ones, one with an empty feedback and one with no feedback
RequestBodies ==
    Responses \cup
    {[ResponseBody(APPROVE, BRAND_VOICE) EXCEPT !.feedback = ""],
     [ResponseBody(APPROVE, BRAND_VOICE) EXCEPT !.feedback = Absent]}

\* pydantic's validation of a body as ApprovalResponse: decision and checkpoint
\* are enum values, feedback is a required str
ValidatesAsApprovalResponse(body) ==
    /\ body.decision \in ApprovalDecision
    /\ body.checkpoint \in CheckpointType
    /\ body.feedback # Absent

\* POST /approvals/{workflow_id}/submit as FastAPI serves it: the body is
\* validated before submit_approval runs
SubmitApprovalRequest(workflow_id, body) ==
    IF ValidatesAsApprovalResponse(body)
    THEN SubmitApproval(workflow_id, body)
    ELSE /\ lastResp' = Reply("submit_approval", NoId, 422)
         /\ UNCHANGED <<workflows, approvals, now, cleanupTasks, storeCalls, threadVars>>

SubmitRequest == \E w \in WfIds, body \in RequestBodies : SubmitApprovalRequest(w, body)
TaskStatus == \E payload \in TaskStatusPayloads : TaskStatusWebhook(payload)

NextActivity ==
    \/ BrandVoice
    \/ StyleCompliance
    \/ FinalQa
    \/ SubmitRequest
    \/ TaskStatus
    \/ CleanupTask
    \/ Tick

SpecActivity == Init /\ [][NextActivity]_vars

(* ------------------- the store called as a library --------------------- *)

\* what a method of WorkflowStorage returned: True/False, or the status of the
\* workflow dict it handed back
StoreReturn(op, workflow_id, result) ==
    [Reply(op, workflow_id, 0) EXCEPT !.status = result]

\* bool as Python prints it
PyBool(b) == IF b THEN "True" ELSE "False"

\* the readings the clock can have shown so far
ClockReadings == {k * TickHours : k \in 0..MaxTicks}
PastReadings == {t \in ClockReadings : t <= now}

\* arguments the client passes
CreateArgs == {[client_name |-> "Initech", topic |-> "Databases"]}
Updates == {[content |-> "edited content"]}
StatusArgs == {IN_PROGRESS, AWAITING_APPROVAL, COMPLETED}
CheckpointArgs == {None, FINAL_QA}
TaskOutputArgs == {[task_name |-> "brand_voice_analysis_task", output |-> "analysis"]}
DecisionArgs ==
    {[checkpoint |-> BRAND_VOICE, decision |-> APPROVE, feedback |-> None],
     [checkpoint |-> FINAL_QA, decision |-> REVISE, feedback |-> "tighten the intro"]}
RetentionDays == {1, 2}

\* the client has calls left
MayCall == storeCalls < MaxStoreCalls

\* workflow_storage.create_workflow(workflow_id, client_name, topic)
CallCreateWorkflow(workflow_id, args) ==
    /\ MayCall
    /\ workflows' = CreateWorkflow(workflows, workflow_id, args.client_name,
                                   args.topic, "unknown", "unknown", "", now)
    /\ lastResp' = StoreReturn("create_workflow", workflow_id, IN_PROGRESS)
    /\ storeCalls' = storeCalls + 1
    /\ UNCHANGED <<approvals, now, cleanupTasks, threadVars>>

\* workflow_storage.update_workflow(workflow_id, updates)
CallUpdateWorkflow(workflow_id, updates) ==
    LET updated == UpdateWorkflow(workflows, workflow_id, updates, now)
    IN /\ MayCall
       /\ workflows' = updated.workflows
       /\ lastResp' = StoreReturn("update_workflow", workflow_id,
                                  IF updated.result
                                  THEN updated.workflows[workflow_id].status
                                  ELSE None)
       /\ storeCalls' = storeCalls + 1
       /\ UNCHANGED <<approvals, now, cleanupTasks, threadVars>>

\* workflow_storage.update_workflow_status(workflow_id, status, checkpoint)
CallUpdateWorkflowStatus(workflow_id, status, checkpoint) ==
    LET updated == UpdateWorkflowStatus(workflows, workflow_id, status, checkpoint, now)
    IN /\ MayCall
       /\ workflows' = updated.workflows
       /\ lastResp' = StoreReturn("update_workflow_status", workflow_id,
                                  PyBool(updated.result))
       /\ storeCalls' = storeCalls + 1
       /\ UNCHANGED <<approvals, now, cleanupTasks, threadVars>>

\* workflow_storage.save_checkpoint_state(workflow_id, checkpoint_type, content,
\* metadata, approval_request) with a request built for the payload
CallSaveCheckpointState(payload, checkpoint_type, approval_request) ==
    LET saved == SaveCheckpointState(workflows, approvals, payload.workflow_id,
                                     checkpoint_type, payload.content,
                                     payload.metadata, approval_request, now)
    IN /\ MayCall
       /\ Len(saved.approvals) <= MaxApprovals
       /\ workflows' = saved.workflows
       /\ approvals' = saved.approvals
       /\ lastResp' = [StoreReturn("save_checkpoint_state", payload.workflow_id,
                                   PyBool(saved.result)) EXCEPT
                          !.checkpoint = checkpoint_type,
                          !.approval_id = approval_request.approval_id]
       /\ storeCalls' = storeCalls + 1
       /\ UNCHANGED <<now, cleanupTasks, threadVars>>

\* workflow_storage.save_task_output(workflow_id, task_name, output)
CallSaveTaskOutput(workflow_id, args) ==
    LET saved == SaveTaskOutput(workflows, workflow_id, args.task_name, args.output, now)
    IN /\ MayCall
       /\ workflows' = saved.workflows
       /\ lastResp' = StoreReturn("save_task_output", workflow_id, PyBool(saved.result))
       /\ storeCalls' = storeCalls + 1
       /\ UNCHANGED <<approvals, now, cleanupTasks, threadVars>>

\* workflow_storage.record_approval_decision(workflow_id, checkpoint, decision,
\* feedback)
CallRecordApprovalDecision(workflow_id, args) ==
    LET recorded == RecordApprovalDecision(workflows, workflow_id, args.checkpoint,
                                           args.decision, args.feedback, now)
    IN /\ MayCall
       /\ workflows' = recorded.workflows
       /\ lastResp' = [StoreReturn("record_approval_decision", workflow_id,
                                   PyBool(recorded.result)) EXCEPT
                          !.checkpoint = args.checkpoint,
                          !.decision = args.decision]
       /\ storeCalls' = storeCalls + 1
       /\ UNCHANGED <<approvals, now, cleanupTasks, threadVars>>

\* workflow_storage.get_pending_approvals()
CallGetPendingApprovals ==
    /\ lastResp' = [StoreReturn("get_pending_approvals", NoId, None) EXCEPT
                       !.count = Len(ListPending)]
    /\ UNCHANGED <<workflows, approvals, now, cleanupTasks, storeCalls, threadVars>>

\* workflow_storage.cleanup_old_workflows(days)
CallCleanupOldWorkflows(days) ==
    LET swept == CleanupOldWorkflows(workflows, days, now)
    IN /\ MayCall
       /\ workflows' = swept.workflows
       /\ lastResp' = [StoreReturn("cleanup_old_workflows", NoId, None) EXCEPT
                          !.count = swept.result]
       /\ storeCalls' = storeCalls + 1
       /\ UNCHANGED <<approvals, now, cleanupTasks, threadVars>>

StoreCreate == \E w \in WfIds, args \in CreateArgs : CallCreateWorkflow(w, args)
StoreUpdate == \E w \in WfIds, updates \in Updates : CallUpdateWorkflow(w, updates)
StoreUpdateStatus ==
    \E w \in WfIds, status \in StatusArgs, checkpoint \in CheckpointArgs :
        CallUpdateWorkflowStatus(w, status, checkpoint)
StoreSaveStyleCompliance ==
    \E payload \in StyleCompliancePayloads, t \in PastReadings :
        CallSaveCheckpointState(payload, STYLE_COMPLIANCE,
            HandleStyleComplianceCheckpoint(payload, NewApprovalId(approvals), t))
StoreSaveFinalQa ==
    \E payload \in FinalQaPayloads, t \in PastReadings :
        CallSaveCheckpointState(payload, FINAL_QA,
            HandleFinalQaCheckpoint(payload, NewApprovalId(approvals), t))
\* the client repeats the save_checkpoint_state call it has just made, with
\* the arguments of that call
StoreSaveAgain ==
    /\ lastResp.op = "save_checkpoint_state"
    /\ \E i \in 1..Len(approvals) :
          /\ approvals[i].approval_id = lastResp.approval_id
          /\ CallSaveCheckpointState(
                [workflow_id |-> lastResp.wf,
                 content |-> workflows[lastResp.wf].content,
                 metadata |-> workflows[lastResp.wf].metadata],
                lastResp.checkpoint, approvals[i])
StoreSaveTaskOutput == \E w \in WfIds, args \in TaskOutputArgs : CallSaveTaskOutput(w, args)
StoreRecordDecision ==
    \E w \in WfIds, args \in DecisionArgs : CallRecordApprovalDecision(w, args)
StoreCleanup == \E days \in RetentionDays : CallCleanupOldWorkflows(days)

NextStore ==
    \/ StoreCreate
    \/ StoreUpdate
    \/ StoreUpdateStatus
    \/ StoreSaveStyleCompliance
    \/ StoreSaveFinalQa
    \/ StoreSaveAgain
    \/ StoreSaveTaskOutput
    \/ StoreRecordDecision
    \/ CallGetPendingApprovals
    \/ StoreCleanup
    \/ Tick

SpecStore == Init /\ [][NextStore]_vars

(* ------------- the handlers and the processor called directly ---------- *)

\* process_approval_decision keeping the response in the dict it was passed
StateAfterProcessKeepingResponse(workflow_state, response) ==
    [workflow_state EXCEPT !.approval_response = <<response>>]

\* the dict passed to process_approval_decision as the call leaves it: the
\* function reads workflow_state.get("checkpoint_type") and assigns nothing
StateAfterProcess(workflow_state, response) == workflow_state

\* the registry as a checkpoint handler leaves it: the handler builds its
\* ApprovalRequest and returns it, handlers.py holds no reference to the store
RegistryAfterHandler(apprs, approval_request) == apprs

\* the handlers by name
HandlerNames ==
    {"handle_brand_voice_checkpoint", "handle_style_compliance_checkpoint",
     "handle_final_qa_checkpoint"}

HandlerPayloads(name) ==
    CASE name = "handle_brand_voice_checkpoint" -> BrandVoicePayloads
      [] name = "handle_style_compliance_checkpoint" -> StyleCompliancePayloads
      [] name = "handle_final_qa_checkpoint" -> FinalQaPayloads

HandlerResult(name, payload, approval_id, t) ==
    CASE name = "handle_brand_voice_checkpoint" ->
            HandleBrandVoiceCheckpoint(payload, approval_id, t)
      [] name = "handle_style_compliance_checkpoint" ->
            HandleStyleComplianceCheckpoint(payload, approval_id, t)
      [] name = "handle_final_qa_checkpoint" ->
            HandleFinalQaCheckpoint(payload, approval_id, t)

\* await process_approval_decision(workflow_id, state, response) with the
\* dict the store handed out
CallProcessApprovalDecision(workflow_id, response) ==
    /\ MayCall
    /\ workflow_id \in DOMAIN workflows
    /\ LET state == workflows[workflow_id]
           result == ProcessApprovalDecision(workflow_id, state, response)
       IN /\ workflows' =
                [workflows EXCEPT ![workflow_id] = StateAfterProcess(state, response)]
          /\ lastResp' =
                [StoreReturn("process_approval_decision", workflow_id,
                             IF result.ok THEN "returned" ELSE "raised") EXCEPT
                    !.decision = response.decision,
                    !.next_action = result.next_action,
                    !.message = result.message]
    /\ storeCalls' = storeCalls + 1
    /\ UNCHANGED <<approvals, now, cleanupTasks, threadVars>>

\* await handle_..._checkpoint(payload)
CallHandler(name, payload) ==
    /\ MayCall
    /\ LET approval_request ==
               HandlerResult(name, payload, NewApprovalId(approvals), now)
       IN /\ approvals' = RegistryAfterHandler(approvals, approval_request)
          /\ lastResp' =
                [StoreReturn(name, payload.workflow_id, "returned") EXCEPT
                    !.checkpoint = approval_request.checkpoint_type,
                    !.approval_id = approval_request.approval_id]
    /\ storeCalls' = storeCalls + 1
    /\ UNCHANGED <<workflows, now, cleanupTasks, threadVars>>

ProcessDecision ==
    \E w \in WfIds, response \in Responses : CallProcessApprovalDecision(w, response)

HandleCheckpoint ==
    \E name \in HandlerNames : \E payload \in HandlerPayloads(name) :
        CallHandler(name, payload)

NextCalls ==
    \/ StoreCreate
    \/ StoreSaveStyleCompliance
    \/ StoreSaveFinalQa
    \/ ProcessDecision
    \/ HandleCheckpoint
    \/ Tick

SpecCalls == Init /\ [][NextCalls]_vars

(* ------------------------------- claims -------------------------------- *)

\* the workflow ids listPending() shows
PendingWorkflowIds == {ListPending[i].workflow_id : i \in 1..Len(ListPending)}

\* the number of entries listPending() shows for workflow w
PendingEntriesFor(w) ==
    Cardinality({i \in 1..Len(ListPending) : ListPending[i].workflow_id = w})

\* the step is a decision submission for w with body r that was accepted
Accepted(w, r) == SubmitApproval(w, r) /\ lastResp'.status = "success"

\* C1: after any sequence of checkpoint notifications, decision submissions
\* and status updates, listPending() holds at most one entry per workflow id.
C1_AtMostOnePendingPerWorkflow ==
    \A w \in WfIds : PendingEntriesFor(w) <= 1

\* C2: a decision submitted for a workflow in AWAITING_APPROVAL whose
\* checkpoint differs from the workflow's current_checkpoint is rejected and
\* changes neither the workflow records nor the registry.
C2_CheckpointMismatchRejected ==
    [][\A w \in WfIds, r \in Responses :
          (/\ w \in DOMAIN workflows
           /\ workflows[w].status = AWAITING_APPROVAL
           /\ r.checkpoint # workflows[w].current_checkpoint
           /\ SubmitApproval(w, r))
          => (/\ lastResp'.status # "success"
              /\ lastResp'.code # 200
              /\ workflows' = workflows
              /\ approvals' = approvals)]_vars

\* C3: a decision submitted for an existing workflow whose status is not
\* AWAITING_APPROVAL is answered 400 with the workflow's current status, and
\* the store is left as it was.
C3_InvalidStateRejected ==
    [][\A w \in WfIds, r \in Responses :
          (/\ w \in DOMAIN workflows
           /\ workflows[w].status # AWAITING_APPROVAL
           /\ SubmitApproval(w, r))
          => (/\ lastResp'.code = 400
              /\ lastResp'.status = workflows[w].status
              /\ workflows' = workflows
              /\ approvals' = approvals)]_vars

\* a decision for an approved workflow was answered 400 naming that status
C3_Witness ==
    /\ lastResp.op = "submit_approval"
    /\ lastResp.code = 400
    /\ lastResp.status = APPROVED
    /\ \E w \in DOMAIN workflows : workflows[w].status = APPROVED

\* C4: a decision submission or a workflow-detail query for a workflow id
\* that is not in the store is answered 404, creates no workflow record and
\* changes no record and no registry entry.
C4_UnknownWorkflowNotFound ==
    [][\A w \in WfIds :
          (/\ w \notin DOMAIN workflows
           /\ \/ \E r \in Responses : SubmitApproval(w, r)
              \/ GetWorkflowDetails(w))
          => (/\ lastResp'.code = 404
              /\ workflows' = workflows
              /\ approvals' = approvals)]_vars

\* a decision for an unknown id was answered 404 while another workflow exists
C4_Witness ==
    /\ lastResp.op = "submit_approval"
    /\ lastResp.code = 404
    /\ Cardinality(DOMAIN workflows) = 1

\* C5: when a decision is accepted for a workflow in AWAITING_APPROVAL, the
\* workflow's status right afterwards is APPROVED for approve, REJECTED for
\* reject and REVISION_REQUESTED for revise.
C5_DecisionSetsStatus ==
    [][\A w \in WfIds, r \in Responses :
          Accepted(w, r)
          => (/\ workflows[w].status = AWAITING_APPROVAL
              /\ w \in DOMAIN workflows'
              /\ r.decision = APPROVE => workflows'[w].status = APPROVED
              /\ r.decision = REJECT => workflows'[w].status = REJECTED
              /\ r.decision = REVISE => workflows'[w].status = REVISION_REQUESTED)]_vars

\* a reject decision was accepted and the workflow is REJECTED
C5_Witness ==
    /\ lastResp.op = "submit_approval"
    /\ lastResp.status = "success"
    /\ lastResp.decision = REJECT
    /\ workflows[lastResp.wf].status = REJECTED

\* the next_action column of the decision table
DecisionTable(checkpoint, decision) ==
    CASE checkpoint = BRAND_VOICE /\ decision = APPROVE -> "proceed_to_content_strategy"
      [] checkpoint = BRAND_VOICE /\ decision = REJECT -> "restart_from_brand_voice"
      [] checkpoint = BRAND_VOICE /\ decision = REVISE -> "revise_brand_voice"
      [] checkpoint = STYLE_COMPLIANCE /\ decision = APPROVE -> "proceed_to_final_qa"
      [] checkpoint = STYLE_COMPLIANCE /\ decision = REJECT -> "restart_from_content_generation"
      [] checkpoint = STYLE_COMPLIANCE /\ decision = REVISE -> "revise_style_compliance"
      [] checkpoint = FINAL_QA /\ decision = APPROVE -> "deliver_content"
      [] checkpoint = FINAL_QA /\ decision = REJECT -> "restart_from_style_compliance"
      [] checkpoint = FINAL_QA /\ decision = REVISE -> "revise_final_qa"

\* C6: for each of the nine (checkpoint, decision) pairs the processor, run
\* by an accepted submission on a workflow at that checkpoint, returns a
\* non-empty message and the next_action of the decision table.
C6_DecisionTable ==
    [][\A w \in WfIds, r \in Responses :
          Accepted(w, r)
          => (/\ workflows[w].checkpoint_type \in CheckpointType
              /\ lastResp'.next_action =
                    DecisionTable(workflows[w].checkpoint_type, r.decision)
              /\ lastResp'.message \notin {"", None})]_vars

\* a reject at the style-compliance checkpoint restarts content generation
C6_Witness ==
    /\ lastResp.op = "submit_approval"
    /\ lastResp.status = "success"
    /\ lastResp.decision = REJECT
    /\ workflows[lastResp.wf].checkpoint_type = STYLE_COMPLIANCE
    /\ lastResp.next_action = "restart_from_content_generation"

\* C7: every accepted decision submission is recorded in the workflow's
\* approval_history: the history is one entry longer and its last entry
\* carries the decision's checkpoint, decision and feedback.
C7_DecisionRecordedInHistory ==
    [][\A w \in WfIds, r \in Responses :
          Accepted(w, r)
          => LET before == workflows[w].approval_history
                 after == workflows'[w].approval_history
             IN /\ Len(after) = Len(before) + 1
                /\ after[Len(after)].checkpoint = r.checkpoint
                /\ after[Len(after)].decision = r.decision
                /\ after[Len(after)].feedback = r.feedback]_vars

\* what save_checkpoint_state leaves behind for payload, in the next state
CheckpointSaved(payload, checkpoint_type) ==
    LET w == payload.workflow_id
        id == lastResp'.approval_id
    IN /\ w \in DOMAIN workflows'
       /\ workflows'[w].status = AWAITING_APPROVAL
       /\ workflows'[w].current_checkpoint = checkpoint_type
       /\ workflows'[w].content = payload.content
       /\ workflows'[w].metadata = payload.metadata
       /\ Len(workflows'[w].approval_request) = 1
       /\ LET request == workflows'[w].approval_request[1]
          IN /\ request.approval_id = id
             /\ request.workflow_id = w
             /\ request.checkpoint_type = checkpoint_type
             /\ request.content = payload.content
             /\ \A i \in 1..Len(approvals) : approvals[i].approval_id # id
             /\ \E i \in 1..Len(approvals') : approvals'[i] = request
       /\ \E k \in 1..Len(ListPending') :
             /\ ListPending'[k].workflow_id = w
             /\ ListPending'[k].approval_id = id

\* C8: right after a checkpoint notification is saved, the workflow exists
\* with status AWAITING_APPROVAL, the notification's checkpoint, content and
\* metadata, and the new approval request, which is indexed in the registry
\* under its approval_id and listed by listPending() for that workflow.
C8_CheckpointSaved ==
    [][/\ \A p \in BrandVoicePayloads :
             BrandVoiceWebhook(p) => CheckpointSaved(p, BRAND_VOICE)
       /\ \A p \in StyleCompliancePayloads :
             StyleComplianceWebhook(p) => CheckpointSaved(p, STYLE_COMPLIANCE)
       /\ \A p \in FinalQaPayloads :
             FinalQaWebhook(p) => CheckpointSaved(p, FINAL_QA)]_vars

\* a second checkpoint of a decided workflow was saved
C8_Witness ==
    /\ lastResp.op = "style_compliance_webhook"
    /\ Len(approvals) = 2
    /\ approvals[1].workflow_id = lastResp.wf
    /\ workflows[lastResp.wf].approval_response # <<>>
    /\ workflows[lastResp.wf].status = AWAITING_APPROVAL
    /\ workflows[lastResp.wf].content = "style compliance report"

\* the step saves a checkpoint notification for workflow w
CheckpointStep(w) ==
    \/ \E p \in BrandVoicePayloads : p.workflow_id = w /\ BrandVoiceWebhook(p)
    \/ \E p \in StyleCompliancePayloads : p.workflow_id = w /\ StyleComplianceWebhook(p)
    \/ \E p \in FinalQaPayloads : p.workflow_id = w /\ FinalQaWebhook(p)

\* C9: once a decision has been accepted for a workflow, the workflow is not
\* in listPending() in any later state until a new checkpoint notification
\* for it is saved: the accepting step takes it off the list, and only a
\* step that saves a checkpoint for it puts a workflow on the list.
C9_NotPendingUntilNextCheckpoint ==
    [][\A w \in WfIds :
          /\ (\E r \in Responses : Accepted(w, r)) =>
                (w \in PendingWorkflowIds /\ w \notin PendingWorkflowIds')
          /\ (w \notin PendingWorkflowIds /\ w \in PendingWorkflowIds') =>
                CheckpointStep(w)]_vars

\* time has passed since a decision was accepted, and the workflow is still
\* off the list while another workflow is on it
C9_Witness ==
    \E w \in DOMAIN workflows :
        /\ workflows[w].approval_response # <<>>
        /\ workflows[w].status = REVISION_REQUESTED
        /\ workflows[w].updated_at < now
        /\ w \notin PendingWorkflowIds
        /\ PendingWorkflowIds # {}

\* the registry entries whose workflow is in the store, awaiting approval
AwaitingEntries ==
    {i \in 1..Len(approvals) :
        /\ approvals[i].workflow_id \in DOMAIN workflows
        /\ workflows[approvals[i].workflow_id].status = AWAITING_APPROVAL}

\* C10: in every reachable state listPending() holds exactly the registry
\* entries whose workflow is in the store with status AWAITING_APPROVAL:
\* one summary for each of them and none for any other entry.
C10_ListPendingExact ==
    /\ Len(ListPending) = Cardinality(AwaitingEntries)
    /\ \A i \in AwaitingEntries :
          \E k \in 1..Len(ListPending) :
              /\ ListPending[k].approval_id = approvals[i].approval_id
              /\ ListPending[k].workflow_id = approvals[i].workflow_id
    /\ \A k \in 1..Len(ListPending) :
          \E i \in AwaitingEntries :
              ListPending[k].approval_id = approvals[i].approval_id

\* the registry holds an entry of a removed workflow and an entry of a
\* workflow awaiting approval, and only the second is listed
C10_Witness ==
    /\ Len(approvals) = 2
    /\ approvals[1].workflow_id \notin DOMAIN workflows
    /\ approvals[2].workflow_id \in DOMAIN workflows
    /\ workflows[approvals[2].workflow_id].status = AWAITING_APPROVAL
    /\ Len(ListPending) = 1
    /\ ListPending[1].approval_id = approvals[2].approval_id

\* C11: the sequence listPending() returns is sorted by ascending created_at
\* of the approval requests: of two adjacent entries the earlier one's
\* created_at is less than or equal to the later one's.
C11_ListPendingSorted ==
    \A k \in 1..(Len(ListPending) - 1) :
        ListPending[k].created_at <= ListPending[k + 1].created_at

\* two requests are listed, and the one registered second, built earlier
\* than the one registered first, is listed first
C11_Witness ==
    /\ Len(ListPending) = 2
    /\ Len(approvals) = 2
    /\ approvals[2].created_at < approvals[1].created_at
    /\ ListPending[1].approval_id = approvals[2].approval_id
    /\ ListPending[2].approval_id = approvals[1].approval_id

\* the fields of a workflow record createWorkflow must leave alone
SameExistingRecord(before, after) ==
    /\ after.status = before.status
    /\ after.current_checkpoint = before.current_checkpoint
    /\ after.content = before.content
    /\ after.approval_request = before.approval_request
    /\ after.approval_history = before.approval_history
    /\ after.created_at = before.created_at

\* a record as createWorkflow makes it for a new id
FreshRecord(rec) ==
    /\ rec.status = IN_PROGRESS
    /\ rec.approval_history = <<>>
    /\ rec.current_checkpoint = None
    /\ rec.approval_request = <<>>

\* C12: createWorkflow called with an id that already exists leaves the
\* existing workflow's status, current_checkpoint, content, approval_request,
\* approval_history and created_at unchanged (whether it fails or returns the
\* existing record); called with a new id it creates a record with status
\* IN_PROGRESS, empty approval_history, no current_checkpoint and no
\* approval_request.
C12_CreateWorkflowDuplicate ==
    [][\A w \in WfIds, args \in CreateArgs :
          CallCreateWorkflow(w, args)
          => /\ w \in DOMAIN workflows'
             /\ IF w \in DOMAIN workflows
                THEN SameExistingRecord(workflows[w], workflows'[w])
                ELSE FreshRecord(workflows'[w])]_vars

\* s is a prefix of t
IsPrefix(s, t) == Len(s) <= Len(t) /\ SubSeq(t, 1, Len(s)) = s

\* C13: approval_history is append-only: for a workflow id that stays in the
\* store, after any operation the previous approval_history is a prefix of
\* the new one.
C13_ApprovalHistoryAppendOnly ==
    [][\A w \in (DOMAIN workflows) \cap (DOMAIN workflows') :
          IsPrefix(workflows[w].approval_history,
                   workflows'[w].approval_history)]_vars

\* the request a client builds at time t for a payload at a checkpoint
RequestFor(payload, checkpoint_type, t) ==
    IF checkpoint_type = STYLE_COMPLIANCE
    THEN HandleStyleComplianceCheckpoint(payload, NewApprovalId(approvals), t)
    ELSE HandleFinalQaCheckpoint(payload, NewApprovalId(approvals), t)

\* the step is a saveCheckpointState call for payload at checkpoint_type
SaveStep(payload, checkpoint_type) ==
    \E t \in PastReadings :
        CallSaveCheckpointState(payload, checkpoint_type,
                                RequestFor(payload, checkpoint_type, t))

\* the metadata value under key k, or the fallback when the key is missing
FieldOrFallback(metadata, k, fallback) ==
    IF metadata[k] = Absent THEN fallback ELSE metadata[k]

\* C14: saveCheckpointState for a workflow id that is not in the store first
\* creates the workflow, taking client_name, topic, content_type and audience
\* from metadata, a missing client_name or topic becoming "Unknown" and a
\* missing content_type or audience "unknown", then applies the checkpoint
\* update, and returns True.
C14_SaveCreatesMissingWorkflow ==
    [][\A payload \in StyleCompliancePayloads \cup FinalQaPayloads,
          checkpoint_type \in {STYLE_COMPLIANCE, FINAL_QA} :
          (/\ payload.workflow_id \notin DOMAIN workflows
           /\ SaveStep(payload, checkpoint_type))
          => LET w == payload.workflow_id
                 m == payload.metadata
             IN /\ w \in DOMAIN workflows'
                /\ workflows'[w].client_name = FieldOrFallback(m, "client_name", "Unknown")
                /\ workflows'[w].topic = FieldOrFallback(m, "topic", "Unknown")
                /\ workflows'[w].content_type = FieldOrFallback(m, "content_type", "unknown")
                /\ workflows'[w].audience = FieldOrFallback(m, "audience", "unknown")
                /\ workflows'[w].created_at = now
                /\ workflows'[w].approval_history = <<>>
                /\ workflows'[w].status = AWAITING_APPROVAL
                /\ workflows'[w].current_checkpoint = checkpoint_type
                /\ workflows'[w].content = payload.content
                /\ workflows'[w].metadata = m
                /\ lastResp'.status = "True"]_vars

\* a checkpoint was saved for an unknown id with a client name and no topic
\* in its metadata: the workflow exists with the name and the fallbacks
C14_Witness ==
    /\ lastResp.op = "save_checkpoint_state"
    /\ lastResp.status = "True"
    /\ lastResp.wf \in DOMAIN workflows
    /\ workflows[lastResp.wf].client_name = "Globex"
    /\ workflows[lastResp.wf].topic = "Unknown"
    /\ workflows[lastResp.wf].content_type = "unknown"
    /\ workflows[lastResp.wf].audience = "engineers"
    /\ workflows[lastResp.wf].status = AWAITING_APPROVAL
    /\ workflows[lastResp.wf].created_at = workflows[lastResp.wf].updated_at

\* the fields of a workflow record other than those in the set changed
SameExcept(before, after, changed) ==
    /\ DOMAIN after = DOMAIN before
    /\ \A f \in (DOMAIN before) \ changed : after[f] = before[f]

\* C15: updateStatus(id, newStatus, checkpoint?) on an unknown id returns
\* false and changes nothing in the store; on a known id it returns true,
\* sets status to newStatus, sets current_checkpoint only when a checkpoint
\* is supplied, and changes no other field except updated_at.
C15_UpdateStatus ==
    [][\A w \in WfIds, status \in StatusArgs, checkpoint \in CheckpointArgs :
          CallUpdateWorkflowStatus(w, status, checkpoint)
          => IF w \notin DOMAIN workflows
             THEN /\ lastResp'.status = "False"
                  /\ workflows' = workflows
                  /\ approvals' = approvals
             ELSE /\ lastResp'.status = "True"
                  /\ DOMAIN workflows' = DOMAIN workflows
                  /\ \A v \in (DOMAIN workflows) \ {w} : workflows'[v] = workflows[v]
                  /\ approvals' = approvals
                  /\ workflows'[w].status = status
                  /\ workflows'[w].current_checkpoint =
                        IF checkpoint = None
                        THEN workflows[w].current_checkpoint
                        ELSE checkpoint
                  /\ SameExcept(workflows[w], workflows'[w],
                                {"status", "current_checkpoint", "updated_at"})]_vars

\* updateStatus without a checkpoint completed a workflow that was at the
\* style-compliance checkpoint, and the checkpoint is still there
C15_Witness ==
    /\ lastResp.op = "update_workflow_status"
    /\ lastResp.status = "True"
    /\ workflows[lastResp.wf].status = COMPLETED
    /\ workflows[lastResp.wf].current_checkpoint = STYLE_COMPLIANCE
    /\ workflows[lastResp.wf].content = "style compliance report"

\* C16: recordDecision(id, checkpoint, decision, feedback) on a known id
\* returns true and appends exactly one entry (checkpoint, decision,
\* feedback, timestamp) at the end of approval_history, leaving status,
\* current_checkpoint, content and approval_request unchanged; on an unknown
\* id it returns false and changes nothing.
C16_RecordDecision ==
    [][\A w \in WfIds, args \in DecisionArgs :
          CallRecordApprovalDecision(w, args)
          => IF w \notin DOMAIN workflows
             THEN /\ lastResp'.status = "False"
                  /\ workflows' = workflows
                  /\ approvals' = approvals
             ELSE LET before == workflows[w].approval_history
                      after == workflows'[w].approval_history
                  IN /\ lastResp'.status = "True"
                     /\ Len(after) = Len(before) + 1
                     /\ SubSeq(after, 1, Len(before)) = before
                     /\ after[Len(after)].checkpoint = args.checkpoint
                     /\ after[Len(after)].decision = args.decision
                     /\ after[Len(after)].feedback = args.feedback
                     /\ after[Len(after)].timestamp = now
                     /\ SameExcept(workflows[w], workflows'[w],
                                   {"approval_history", "updated_at"})
                     /\ DOMAIN workflows' = DOMAIN workflows
                     /\ \A v \in (DOMAIN workflows) \ {w} : workflows'[v] = workflows[v]
                     /\ approvals' = approvals]_vars

\* a second decision was recorded for a workflow awaiting approval: both are
\* in the history, in the order they were recorded
C16_Witness ==
    /\ lastResp.op = "record_approval_decision"
    /\ lastResp.status = "True"
    /\ lastResp.decision = REVISE
    /\ workflows[lastResp.wf].status = AWAITING_APPROVAL
    /\ Len(workflows[lastResp.wf].approval_history) = 2
    /\ workflows[lastResp.wf].approval_history[1].decision = APPROVE
    /\ workflows[lastResp.wf].approval_history[2].decision = REVISE
    /\ workflows[lastResp.wf].approval_history[2].feedback = "tighten the intro"

\* the workflows whose updated_at is older than now - days
OlderThan(days) ==
    {w \in DOMAIN workflows : workflows[w].updated_at < now - 24 * days}

\* C17: cleanup(retentionDays) removes exactly the workflows whose updated_at
\* is older than now - retentionDays, whatever their status, returns the
\* number removed and leaves every other workflow record unchanged; when no
\* workflow is older than the window it returns 0 and removes nothing.
C17_CleanupRemovesExactlyOld ==
    [][\A days \in RetentionDays :
          CallCleanupOldWorkflows(days)
          => /\ DOMAIN workflows' = (DOMAIN workflows) \ OlderThan(days)
             /\ \A w \in DOMAIN workflows' : workflows'[w] = workflows[w]
             /\ lastResp'.count = Cardinality(OlderThan(days))
             /\ OlderThan(days) = {} =>
                   (lastResp'.count = 0 /\ workflows' = workflows)]_vars

\* cleanup removed one workflow, whose approval request is still in the
\* registry, and kept a younger workflow that is awaiting approval
C17_Witness ==
    /\ lastResp.op = "cleanup_old_workflows"
    /\ lastResp.count = 1
    /\ Len(approvals) = 2
    /\ approvals[1].workflow_id \notin DOMAIN workflows
    /\ approvals[2].workflow_id \in DOMAIN workflows
    /\ workflows[approvals[2].workflow_id].status = AWAITING_APPROVAL
    /\ workflows[approvals[2].workflow_id].updated_at = now

\* C18: the cleanup sweep purges stale registry entries: after a step that
\* removes a workflow, no approval request owned by that workflow remains in
\* the registry (so that a workflow created later under the same id cannot
\* bring the old requests back into listPending()).
C18_CleanupPurgesRegistry ==
    [][\A w \in (DOMAIN workflows) \ (DOMAIN workflows') :
          \A i \in 1..Len(approvals') : approvals'[i].workflow_id # w]_vars

\* C19: in every reachable state, every workflow in the store satisfies
\* updated_at >= created_at.
C19_UpdatedNotBeforeCreated ==
    \A w \in DOMAIN workflows : workflows[w].updated_at >= workflows[w].created_at

\* a workflow created at one reading of the clock had its status updated at
\* a later one
C19_Witness ==
    /\ lastResp.op = "update_workflow_status"
    /\ lastResp.status = "True"
    /\ workflows[lastResp.wf].created_at < now
    /\ workflows[lastResp.wf].updated_at = now

\* the step is a mutating store call on workflow w
MutatingCall(w) ==
    \/ \E updates \in Updates : CallUpdateWorkflow(w, updates)
    \/ \E status \in StatusArgs, checkpoint \in CheckpointArgs :
          CallUpdateWorkflowStatus(w, status, checkpoint)
    \/ \E payload \in StyleCompliancePayloads \cup FinalQaPayloads,
          checkpoint_type \in {STYLE_COMPLIANCE, FINAL_QA} :
          payload.workflow_id = w /\ SaveStep(payload, checkpoint_type)
    \/ \E args \in TaskOutputArgs : CallSaveTaskOutput(w, args)
    \/ \E args \in DecisionArgs : CallRecordApprovalDecision(w, args)

\* C20: every successful mutating store call on an existing workflow
\* (saveCheckpointState, updateStatus, recordDecision, save_task_output,
\* update_workflow) strictly increases that workflow's updated_at, the clock
\* never going backwards but possibly showing the same reading to two
\* consecutive calls.
C20_MutationAdvancesUpdatedAt ==
    [][\A w \in WfIds :
          (w \in DOMAIN workflows /\ MutatingCall(w))
          => workflows'[w].updated_at > workflows[w].updated_at]_vars

\* C21: no endpoint changes a field of a stored workflow record except
\* through the store's mutation entry points: every step that changes any
\* field of a workflow record also stamps that record's updated_at with the
\* reading of the clock (decision submission and task status included).
C21_EveryChangeStampsUpdatedAt ==
    [][\A w \in (DOMAIN workflows) \cap (DOMAIN workflows') :
          workflows'[w] # workflows[w] => workflows'[w].updated_at = now]_vars

\* C22: saveCheckpointState is idempotent apart from updated_at: called a
\* second time in a row with identical arguments (the same approval request
\* under the same approval_id) it leaves the workflow record as the first
\* call left it except for updated_at, and leaves the registry and the
\* result of listPending() as they were.
C22_SaveCheckpointIdempotent ==
    [][StoreSaveAgain
       => LET w == lastResp.wf
          IN /\ DOMAIN workflows' = DOMAIN workflows
             /\ \A v \in (DOMAIN workflows) \ {w} : workflows'[v] = workflows[v]
             /\ SameExcept(workflows[w], workflows'[w], {"updated_at"})
             /\ workflows'[w].updated_at = now
             /\ approvals' = approvals
             /\ ListPending' = ListPending]_vars

\* a checkpoint was saved for a new workflow and, the clock having advanced,
\* saved again with the same request: one registry entry, a later updated_at
C22_Witness ==
    /\ lastResp.op = "save_checkpoint_state"
    /\ storeCalls = 2
    /\ Len(approvals) = 1
    /\ lastResp.wf \in DOMAIN workflows
    /\ workflows[lastResp.wf].client_name # "Initech"
    /\ workflows[lastResp.wf].updated_at > workflows[lastResp.wf].created_at
    /\ workflows[lastResp.wf].status = AWAITING_APPROVAL
    /\ Len(ListPending) = 1

\* the fields of the record that save_checkpoint_state assigns from its
\* arguments
SavedFields == <<"content", "metadata", "checkpoint_type", "current_checkpoint",
                 "status", "approval_request">>

\* every saved field of the record is the one writer th assigned
AllFrom(th) ==
    /\ RaceWf \in DOMAIN workflows
    /\ \A i \in 1..Len(SavedFields) :
          workflows[RaceWf][SavedFields[i]] = WrittenValue(th, SavedFields[i])

\* the writers that are inside save_checkpoint_state's with block
Inside == {th \in Writers : pc[th] \notin {"start", "done"}}

\* C23: two save_checkpoint_state calls racing on one workflow id never
\* interleave (at most one is inside the locked block at a time), and once no
\* call is in progress current_checkpoint, status, content, metadata and
\* approval_request all come from the call that completed last
C23_RacingSavesDoNotInterleave ==
    /\ Cardinality(Inside) <= 1
    /\ (Inside = {} /\ finished # <<>>) => AllFrom(finished[Len(finished)])

\* both calls have run, writer_2 first, and the record is writer_1's throughout
C23_Witness ==
    /\ finished = <<"writer_2", "writer_1">>
    /\ pc["writer_1"] = "done" /\ pc["writer_2"] = "done"
    /\ workflows[RaceWf].current_checkpoint = STYLE_COMPLIANCE
    /\ workflows[RaceWf].content = "style compliance report"
    /\ Len(approvals) = 2

\* the fields a reader looks at as writer th's call leaves them
PostUpdate(th) == [i \in 1..Len(ReadSteps) |-> WrittenValue(th, ReadSteps[i])]

\* C24: a reader that got the workflow from get_workflow and then read its
\* status, current_checkpoint, content and approval_request has seen either
\* the values the record had when it was handed out or the values one
\* save_checkpoint_state call left, never some of each
C24_ReaderSeesNoHalfUpdate ==
    (pc[Reader] = "done" /\ seen.at_get # <<>>) =>
        \/ seen.read = seen.at_get
        \/ \E th \in Writers : seen.read = PostUpdate(th)

\* a call of the decision processor or of a checkpoint handler
ProcessorOrHandlerCall == ProcessDecision \/ HandleCheckpoint

\* C25: a call to process_approval_decision or to any of the three checkpoint
\* handlers leaves the workflow store, the workflow dict passed in and the
\* approval registry as they were
C25_ProcessorAndHandlersReadOnly ==
    [][ProcessorOrHandlerCall =>
          /\ workflows' = workflows
          /\ approvals' = approvals
          /\ ListPending' = ListPending]_vars

\* the processor has returned a next action for a workflow that awaits
\* approval and has a request in the registry
C25_Witness ==
    /\ lastResp.op = "process_approval_decision"
    /\ lastResp.status = "returned"
    /\ lastResp.next_action # None
    /\ lastResp.wf \in DOMAIN workflows
    /\ workflows[lastResp.wf].status = AWAITING_APPROVAL
    /\ workflows[lastResp.wf].approval_response = <<>>
    /\ Len(approvals) = 1

\* the bodies whose feedback is missing or empty
NoFeedbackBodies == {body \in RequestBodies : body.feedback \in {Absent, ""}}

\* C26: a decision submission whose feedback is missing or is the empty
\* string is answered with a validation error (422) before the store is
\* reached and leaves every workflow, its status included, as it was; stated
\* for the submissions that name a workflow awaiting approval
C26_NoFeedbackRejected ==
    [][\A w \in DOMAIN workflows, body \in NoFeedbackBodies :
          (workflows[w].status = AWAITING_APPROVAL /\ SubmitApprovalRequest(w, body)) =>
              /\ lastResp'.code = 422
              /\ workflows' = workflows
              /\ approvals' = approvals]_vars

\* the step is a save_checkpoint_state call for workflow w with a request the
\* client has just built
NewCheckpointSave(w) ==
    \E payload \in StyleCompliancePayloads \cup FinalQaPayloads,
       checkpoint_type \in {STYLE_COMPLIANCE, FINAL_QA} :
        payload.workflow_id = w /\ SaveStep(payload, checkpoint_type)

\* the approval ids the registry holds
RegistryIds == {approvals[i].approval_id : i \in 1..Len(approvals)}

\* C27: an approval request is read-only once it is in the registry: no
\* operation changes or drops an entry, and a later checkpoint for a workflow
\* that has an entry adds a new entry under a new approval_id
C27_ApprovalRequestReadOnly ==
    [][/\ IsPrefix(approvals, approvals')
       /\ \A w \in WfIds :
             (NewCheckpointSave(w) /\ \E i \in 1..Len(approvals) : approvals[i].workflow_id = w) =>
                 /\ Len(approvals') = Len(approvals) + 1
                 /\ approvals'[Len(approvals')].workflow_id = w
                 /\ approvals'[Len(approvals')].approval_id \notin RegistryIds]_vars

\* wf_1 was saved at style_compliance and then at final_qa and its status was
\* updated afterwards: the registry holds both requests, the first as built
C27_Witness ==
    /\ Len(approvals) = 2
    /\ approvals[1].workflow_id = "wf_1" /\ approvals[2].workflow_id = "wf_1"
    /\ approvals[1].checkpoint_type = STYLE_COMPLIANCE
    /\ approvals[2].checkpoint_type = FINAL_QA
    /\ approvals[1].approval_id # approvals[2].approval_id
    /\ lastResp.op = "update_workflow_status"
    /\ workflows["wf_1"].status = COMPLETED

\* createWorkflow, saveCheckpointState, updateStatus and recordDecision with
\* the arguments the client passes, as records of one shape
Mutations ==
    {[kind |-> "create_workflow", status |-> None, checkpoint |-> None, decision |-> None]}
    \cup [kind : {"save_checkpoint_state"}, status : {None},
          checkpoint : {STYLE_COMPLIANCE, FINAL_QA}, decision : {None}]
    \cup [kind : {"update_workflow_status"}, status : StatusArgs,
          checkpoint : CheckpointArgs, decision : {None}]
    \cup {[kind |-> "record_approval_decision", status |-> None,
           checkpoint |-> args.checkpoint, decision |-> args.decision] :
             args \in DecisionArgs}

\* workflows and registry after mutation m is called on workflow w, a save
\* bringing a request with approval id id
After(m, w, id, st) ==
    CASE m.kind = "create_workflow" ->
            LET args == CHOOSE args \in CreateArgs : TRUE
            IN [workflows |-> CreateWorkflow(st.workflows, w, args.client_name,
                                             args.topic, "unknown", "unknown", "", now),
                approvals |-> st.approvals]
      [] m.kind = "save_checkpoint_state" ->
            LET payload ==
                    CHOOSE p \in StyleCompliancePayloads \cup FinalQaPayloads :
                        /\ p.workflow_id = w
                        /\ (p \in StyleCompliancePayloads) = (m.checkpoint = STYLE_COMPLIANCE)
                request ==
                    IF m.checkpoint = STYLE_COMPLIANCE
                    THEN HandleStyleComplianceCheckpoint(payload, id, now)
                    ELSE HandleFinalQaCheckpoint(payload, id, now)
                saved == SaveCheckpointState(st.workflows, st.approvals, w, m.checkpoint,
                                             payload.content, payload.metadata, request, now)
            IN [workflows |-> saved.workflows, approvals |-> saved.approvals]
      [] m.kind = "update_workflow_status" ->
            [workflows |-> UpdateWorkflowStatus(st.workflows, w, m.status,
                                                m.checkpoint, now).workflows,
             approvals |-> st.approvals]
      [] m.kind = "record_approval_decision" ->
            LET args == CHOOSE args \in DecisionArgs :
                            args.checkpoint = m.checkpoint /\ args.decision = m.decision
            IN [workflows |-> RecordApprovalDecision(st.workflows, w, args.checkpoint,
                                                     args.decision, args.feedback,
                                                     now).workflows,
                approvals |-> st.approvals]

\* the step is one of the four mutations, called on workflow w
MutationOn(w) ==
    \/ \E args \in CreateArgs : CallCreateWorkflow(w, args)
    \/ NewCheckpointSave(w)
    \/ \E status \in StatusArgs, checkpoint \in CheckpointArgs :
          CallUpdateWorkflowStatus(w, status, checkpoint)
    \/ \E args \in DecisionArgs : CallRecordApprovalDecision(w, args)

\* the entries of a registry, whatever their order of insertion
Entries(apprs) == {apprs[i] : i \in 1..Len(apprs)}

\* every other workflow is in the store as before
OthersUnchanged(w) ==
    \A v \in (DOMAIN workflows) \ {w} :
        v \in DOMAIN workflows' /\ workflows'[v] = workflows[v]

\* from the present store, mutation ma on a and mutation mb on b give the
\* same workflows and the same registry entries in either order
Commute(ma, a, mb, b) ==
    LET st == [workflows |-> workflows, approvals |-> approvals]
        ida == NewApprovalId(approvals)
        idb == ida + 1
        ab == After(mb, b, idb, After(ma, a, ida, st))
        ba == After(ma, a, ida, After(mb, b, idb, st))
    IN /\ ab.workflows = ba.workflows
       /\ Entries(ab.approvals) = Entries(ba.approvals)

\* C28: create_workflow, save_checkpoint_state, update_workflow_status and
\* record_approval_decision on one workflow id leave every field of every
\* other workflow unchanged, and from any store two such mutations on different
\* ids, made at the same reading of the clock, give the same store in either
\* order
C28_MutationsOnDifferentIdsIndependent ==
    /\ [][\A w \in WfIds : MutationOn(w) => OthersUnchanged(w)]_vars
    /\ [](\A a \in WfIds, b \in WfIds : a # b =>
             \A ma \in Mutations, mb \in Mutations : Commute(ma, a, mb, b))

\* wf_1 was saved and wf_2 was then created, at a later reading of the clock:
\* wf_1's record is as its save left it
C28_Witness ==
    /\ lastResp.op = "create_workflow" /\ lastResp.wf = "wf_2"
    /\ DOMAIN workflows = {"wf_1", "wf_2"}
    /\ workflows["wf_1"].status = AWAITING_APPROVAL
    /\ workflows["wf_1"].current_checkpoint = FINAL_QA
    /\ workflows["wf_1"].updated_at < workflows["wf_2"].created_at
    /\ Len(approvals) = 1

\* C29: accepting approve, reject or revise changes the workflow's status and
\* leaves current_checkpoint at the checkpoint that was awaiting approval, and
\* the current_checkpoint of a workflow that stays in the store changes only
\* in a step that saves a checkpoint notification for it
C29_CurrentCheckpointRetained ==
    [][\A w \in WfIds :
          /\ (\E r \in Responses : Accepted(w, r)) =>
                /\ workflows[w].current_checkpoint \in CheckpointType
                /\ workflows'[w].current_checkpoint = workflows[w].current_checkpoint
                /\ workflows'[w].status # workflows[w].status
          /\ ( /\ w \in (DOMAIN workflows) \cap (DOMAIN workflows')
               /\ workflows'[w].current_checkpoint # workflows[w].current_checkpoint )
                => CheckpointStep(w)]_vars

\* a reject was accepted for a workflow that awaited approval at
\* style_compliance: the status is rejected, the checkpoint still style_compliance
C29_Witness ==
    /\ lastResp.op = "submit_approval"
    /\ lastResp.status = "success"
    /\ lastResp.decision = REJECT
    /\ lastResp.wf \in DOMAIN workflows
    /\ workflows[lastResp.wf].status = REJECTED
    /\ workflows[lastResp.wf].current_checkpoint = STYLE_COMPLIANCE
    /\ workflows[lastResp.wf].approval_response # <<>>

\* C30: when wf_1's checkpoint has been saved and is the one pending entry,
\* and save_checkpoint_state is then called for wf_2 with the request its
\* handler built, listPending() returns wf_1 before wf_2
C30_ListedInSaveOrder ==
    [][( /\ NewCheckpointSave("wf_2")
         /\ "wf_2" \notin DOMAIN workflows
         /\ Len(ListPending) = 1
         /\ ListPending[1].workflow_id = "wf_1" ) =>
            /\ Len(ListPending') = 2
            /\ ListPending'[1].workflow_id = "wf_1"
            /\ ListPending'[2].workflow_id = "wf_2"]_vars

\* C31: submit_approval reports status "success" only if the status
\* transition was applied to a workflow that is still in the store, also when
\* the background cleanup removed the workflow after the endpoint's status
\* test and before its update_workflow_status call
C31_SuccessOnlyIfApplied ==
    [][(SubmitApprovalUpdate /\ lastResp'.status = "success") =>
          LET w == held[1].workflow_id
          IN /\ w \in DOMAIN workflows'
             /\ workflows'[w].status = DecisionStatus(held[1].response.decision)]_vars

\* the step put a request in the registry that was not there, for payload's
\* workflow_id and content, at checkpoint_type and with the given priority,
\* and the reply names its approval_id
RequestBuilt(payload, checkpoint_type, priority) ==
    /\ Len(approvals') = Len(approvals) + 1
    /\ LET request == approvals'[Len(approvals')]
       IN /\ request.approval_id \notin RegistryIds
          /\ request.workflow_id = payload.workflow_id
          /\ request.content = payload.content
          /\ request.checkpoint_type = checkpoint_type
          /\ request.priority = priority
          /\ lastResp'.approval_id = request.approval_id

\* C32: each checkpoint handler returns a request with an approval_id no
\* registry entry carries, the notification's workflow_id and content, its own
\* checkpoint_type, and priority "high" for brand-voice and final-QA and
\* "medium" for style-compliance; seen in the request each webhook stores
C32_HandlerBuildsRequest ==
    [][/\ \A p \in BrandVoicePayloads :
             BrandVoiceWebhook(p) => RequestBuilt(p, BRAND_VOICE, "high")
       /\ \A p \in StyleCompliancePayloads :
             StyleComplianceWebhook(p) => RequestBuilt(p, STYLE_COMPLIANCE, "medium")
       /\ \A p \in FinalQaPayloads :
             FinalQaWebhook(p) => RequestBuilt(p, FINAL_QA, "high")]_vars

\* a brand-voice request and then a style-compliance request for the same
\* workflow are in the registry, under different ids and with their priorities
C32_Witness ==
    /\ Len(approvals) = 2
    /\ approvals[1].checkpoint_type = BRAND_VOICE /\ approvals[1].priority = "high"
    /\ approvals[2].checkpoint_type = STYLE_COMPLIANCE /\ approvals[2].priority = "medium"
    /\ approvals[1].workflow_id = approvals[2].workflow_id
    /\ approvals[1].approval_id # approvals[2].approval_id
    /\ lastResp.op = "style_compliance_webhook"
    /\ lastResp.approval_id = approvals[2].approval_id

\* C33: an agent-completion or error notification that names a workflow id
\* not in the store is answered as not found (404), not acknowledged, and
\* creates no workflow record
C33_UnknownNotificationNotFound ==
    [][\A w \in WfIds \ DOMAIN workflows :
          (AgentCompletionWebhook(w) \/ ErrorNotificationWebhook(w)) =>
              /\ lastResp'.code = 404
              /\ lastResp'.status # "received"
              /\ workflows' = workflows]_vars

\* C34: in every state the server's endpoints reach, a workflow with status
\* AWAITING_APPROVAL has an approval_request that names the workflow, whose
\* checkpoint_type is the workflow's current_checkpoint and whose approval_id
\* is in the registry
C34_AwaitingHasRegisteredRequest ==
    \A w \in DOMAIN workflows :
        workflows[w].status = AWAITING_APPROVAL =>
            /\ workflows[w].approval_request # <<>>
            /\ LET request == workflows[w].approval_request[1]
               IN /\ request.workflow_id = w
                  /\ request.checkpoint_type = workflows[w].current_checkpoint
                  /\ request.approval_id \in RegistryIds

\* a workflow that was decided on and has entered a second checkpoint awaits
\* approval with the second request, and both requests are in the registry
C34_Witness ==
    /\ "wf_1" \in DOMAIN workflows
    /\ workflows["wf_1"].status = AWAITING_APPROVAL
    /\ workflows["wf_1"].current_checkpoint = FINAL_QA
    /\ workflows["wf_1"].approval_response # <<>>
    /\ Len(approvals) = 2
    /\ workflows["wf_1"].approval_request[1].approval_id = approvals[2].approval_id

\* C35: after any sequence of store operations the checkpoint the decision
\* processor reads from a workflow record that is at a checkpoint, its
\* checkpoint_type, equals the record's current_checkpoint
C35_ProcessorReadsCurrentCheckpoint ==
    \A w \in DOMAIN workflows :
        workflows[w].current_checkpoint # None =>
            CheckpointTypeValue(workflows[w]) = workflows[w].current_checkpoint

\* the fields of a workflow dict that are given at creation
CreationFields ==
    {"created_at", "approval_history", "task_outputs", "client_name", "topic"}

\* C36: save_checkpoint_state on a workflow that is in the store leaves its
\* created_at, approval_history, task_outputs, client_name and topic as they
\* were, and the entry listPending() then shows for the workflow carries that
\* client_name and topic, whatever the metadata of the call says
C36_SaveKeepsCreationFields ==
    [][\A w \in DOMAIN workflows :
          NewCheckpointSave(w) =>
              /\ \A f \in CreationFields : workflows'[w][f] = workflows[w][f]
              /\ \E i \in 1..Len(ListPending') :
                    /\ ListPending'[i].workflow_id = w
                    /\ ListPending'[i].approval_id = lastResp'.approval_id
                    /\ ListPending'[i].client_name = workflows[w].client_name
                    /\ ListPending'[i].topic = workflows[w].topic]_vars

\* wf_1 was created for Initech and then saved at final_qa with metadata that
\* names Globex: the record and the pending entry still say Initech
C36_Witness ==
    /\ lastResp.op = "save_checkpoint_state"
    /\ lastResp.wf = "wf_1"
    /\ "wf_1" \in DOMAIN workflows
    /\ workflows["wf_1"].client_name = "Initech"
    /\ workflows["wf_1"].metadata["client_name"] = "Globex"
    /\ Len(ListPending) = 1
    /\ ListPending[1].client_name = "Initech"
    /\ ListPending[1].topic = "Databases"

\* every thread's store call has returned and nobody holds the lock
AllReturned == (\A th \in Threads : pc[th] = "done") /\ lock = Unlocked

\* C37: no store operation blocks forever: under fair scheduling every thread
\* that has entered a store method gets to its end, a save_checkpoint_state
\* that calls create_workflow while it holds the lock included, and in the end
\* every call has returned and the lock is free
C37_StoreCallsComplete ==
    /\ \A th \in Writers : (pc[th] \notin {"start", "done"}) ~> (pc[th] = "done")
    /\ \A th \in Writers : (pc[th] = "create_lock") ~> (pc[th] = "create_put")
    /\ <>[]AllReturned

\* a writer is inside create_workflow, having taken the lock a second time,
\* while the other writer waits for the lock
C37_Witness ==
    \E th \in Writers :
        /\ pc[th] = "create_put"
        /\ lock = [owner |-> th, count |-> 2]
        /\ \A other \in Writers \ {th} : pc[other] = "start"

\* the statuses a decision leaves
DecidedStatuses == {APPROVED, REJECTED, REVISION_REQUESTED}

\* workflow w enters AWAITING_APPROVAL in this step
EntersAwaiting(w) ==
    /\ w \in DOMAIN workflows'
    /\ workflows'[w].status = AWAITING_APPROVAL
    /\ (w \in DOMAIN workflows => workflows[w].status # AWAITING_APPROVAL)

EndStatuses == {COMPLETED, FAILED}

\* C39: an agent-completion or error notification sets a stored workflow's
\* status to COMPLETED or FAILED whatever its status was, AWAITING_APPROVAL
\* included, and the workflow is then not in listPending(); a decision
\* submission for a COMPLETED or FAILED workflow is answered 400 and changes
\* nothing; and a checkpoint notification for such a workflow makes it await
\* approval and puts it on the list again
C39_NotificationsUnguarded ==
    [][\A w \in DOMAIN workflows :
          /\ AgentCompletionWebhook(w) =>
                workflows'[w].status = COMPLETED /\ w \notin PendingWorkflowIds'
          /\ ErrorNotificationWebhook(w) =>
                workflows'[w].status = FAILED /\ w \notin PendingWorkflowIds'
          /\ \A r \in Responses :
                (workflows[w].status \in EndStatuses /\ SubmitApproval(w, r)) =>
                    /\ lastResp'.code = 400
                    /\ workflows' = workflows
          /\ (workflows[w].status \in EndStatuses /\ CheckpointStep(w)) =>
                /\ workflows'[w].status = AWAITING_APPROVAL
                /\ w \in PendingWorkflowIds']_vars

\* a workflow that awaited approval and got no decision is FAILED and off the
\* list after an error notification
C39_Witness ==
    /\ lastResp.op = "error_notification_webhook"
    /\ "wf_1" \in DOMAIN workflows
    /\ workflows["wf_1"].status = FAILED
    /\ workflows["wf_1"].approval_request # <<>>
    /\ workflows["wf_1"].approval_response = <<>>
    /\ workflows["wf_1"].updated_at > workflows["wf_1"].created_at
    /\ Len(approvals) = 1
    /\ ListPending = <<>>

====
